---- MODULE Spec2Model ----
(***************************************************************************)
(* Six Nations fantasy predictor: services and endpoints of the backend.   *)
(*                                                                         *)
(*   Spec            the team optimiser (services/optimiser.py)            *)
(*   SpecScoring     calculate_fantasy_points (services/scoring.py)        *)
(*   SpecPredictor   Predictor and its heuristic (services/predictor.py)   *)
(*   SpecValidation  validate_round_data (services/validation_service.py)  *)
(*   SpecFixtures    the schedule and the clock (fixtures.py)              *)
(*   SpecJobs        the scrape jobs and their tasks (api/scrape.py)       *)
(*   SpecJobsFair    the same, every task scheduled again and again        *)
(*   SpecMissing     what a "missing markets" scrape saves (api/scrape.py) *)
(*   SpecPredictions the Prediction rows and the optimise endpoint         *)
(*                   (api/predictions.py, api/optimiser.py)                *)
(*                                                                         *)
(* Each specification follows one part of the backend; the variables of    *)
(* the other parts rest at their idle values.                              *)
(*                                                                         *)
(* optimise_team is a single blocking call.  The model follows one call    *)
(* through its three phases: the availability filter, the 0/1 program      *)
(* handed to the solver, and the assembly of the OptimisedTeam.            *)
(*                                                                         *)
(* Numbers.  Prices and budgets are whole price units.  Predicted points   *)
(* are whole points; every quantity that the code multiplies by 0.5 or 2.5 *)
(* (the objective, total_predicted_points) is kept in HALF points, so that *)
(* 0.5 x p is p, 1 x p is 2p and 2.5 x p is 5p.                            *)
(***************************************************************************)
EXTENDS Integers, Sequences, FiniteSets, TLC

VARIABLES
    players,            \* argument: the roster, a list of OptimiserPlayer
    budget,             \* argument
    max_per_country,    \* argument
    locked_players,     \* argument: list of ids
    excluded_players,   \* argument: list of ids
    include_bench,      \* argument
    available_players,  \* local: the candidate pool
    status,             \* LpStatus[prob.status] after prob.solve()
    sol,                \* the solver's variable values: the ids whose x, b, c, s is 1
    result,             \* the OptimisedTeam returned
    pc,                 \* the call in progress and the position in it
    stats,              \* scoring: the argument of calculate_fantasy_points
    fantasy_points,     \* scoring: the value returned
    JOBLIB_AVAILABLE,   \* predictor: whether "import joblib" succeeded
    path_exists,        \* predictor: os.path.exists(self.model_path)
    load_raises,        \* predictor: whether joblib.load raises on the file
    model,              \* predictor: self.model
    features,           \* predictor: the argument of the last predict call
    unrounded_points,   \* predictor: base_points just before it is rounded
    prediction,         \* predictor: the dict the last predict call returned
    match_data,         \* validation: argument, one dict per match of the round
    has_prices,         \* validation: argument
    played_matches,     \* validation: the played_matches keyword, if passed
    warnings,           \* validation: the list returned
    utcnow,             \* fixtures: what _utcnow() reads, in minutes
    fx_call,            \* fixtures: the call made last, with its arguments
    fx_return,          \* fixtures: what that call returned
    _jobs,              \* scrape api: the job store, in insertion order
    _tasks,             \* scrape api: the background task of each job
    job_return,         \* scrape api: what the last endpoint call answered
    match_odds,         \* scrape api: the odds stored for each match
    per_match_missing,  \* scrape api: the argument of _run_scraper
    scraped,            \* scrape api: the (match, market) pairs saved
    predictions,        \* predictions api: the rows of table predictions
    optimiser_players   \* optimiser api: the list handed to optimise_team

optimiserVars == <<players, budget, max_per_country, locked_players,
                   excluded_players, include_bench, available_players,
                   status, sol, result>>

scoringVars == <<stats, fantasy_points>>

predictorVars == <<JOBLIB_AVAILABLE, path_exists, load_raises, model,
                   features, unrounded_points, prediction>>

validationVars == <<match_data, has_prices, played_matches, warnings>>

fixturesVars == <<utcnow, fx_call, fx_return>>

\* The variables of the services modelled after the first four.
jobsVars == <<_jobs, _tasks, job_return>>

missingVars == <<match_odds, per_match_missing, scraped>>

predictionsVars == <<predictions, optimiser_players>>

apiVars == <<jobsVars, missingVars, predictionsVars>>

restVars == <<fixturesVars, apiVars>>

servicesVars == <<optimiserVars, scoringVars, predictorVars, validationVars>>

vars == <<servicesVars, restVars, pc>>

args == <<players, budget, max_per_country, locked_players, excluded_players,
          include_bench>>

\* Python's None; a record, so that it compares unequal to every player.
None == [none |-> TRUE]

-----------------------------------------------------------------------------
(* schemas/player.py *)

Country == {"Ireland", "England", "France", "Wales", "Scotland", "Italy"}

Position == <<"prop", "hooker", "second_row", "back_row",
              "scrum_half", "out_half", "centre", "back_3">>

PositionSet == {Position[i] : i \in 1..Len(Position)}

\* Variant: two hookers allowed.
POSITION_LIMITS_TwoHookers ==
    [position \in PositionSet |->
        CASE position = "prop"       -> 2
          [] position = "hooker"     -> 2
          [] position = "second_row" -> 2
          [] position = "back_row"   -> 3
          [] position = "scrum_half" -> 1
          [] position = "out_half"   -> 1
          [] position = "centre"     -> 2
          [] position = "back_3"     -> 3]

POSITION_LIMITS ==
    [position \in PositionSet |->
        CASE position = "prop"       -> 2
          [] position = "hooker"     -> 1
          [] position = "second_row" -> 2
          [] position = "back_row"   -> 3
          [] position = "scrum_half" -> 1
          [] position = "out_half"   -> 1
          [] position = "centre"     -> 2
          [] position = "back_3"     -> 3]

-----------------------------------------------------------------------------
(* The inputs a call is made with. *)

\* The most players a roster holds.
MaxRoster == 4

OptimiserPlayer(id, country, position, price, points, avail) ==
    [id |-> id, country |-> country, fantasy_position |-> position,
     price |-> price, predicted_points |-> points, is_available |-> avail]

\* The players rosters are drawn from: two hookers of one country (the
\* hooker cap is 1), three props (the prop cap is 2), three players of one
\* country, a free player worth nothing, and a player without a team
\* selection for the round.
Catalogue ==
    << OptimiserPlayer(1, "Ireland", "hooker", 3, 4, TRUE),
       OptimiserPlayer(2, "Ireland", "hooker", 1, 2, TRUE),
       OptimiserPlayer(3, "England", "prop",   2, 3, TRUE),
       OptimiserPlayer(4, "Ireland", "prop",   0, 0, TRUE),
       OptimiserPlayer(5, "France",  "hooker", 1, 5, FALSE),
       OptimiserPlayer(6, "England", "prop",   1, 2, TRUE) >>

CatalogueIds == 1..Len(Catalogue)

RECURSIVE ListOf(_)
\* The catalogue players with an id in S, in catalogue order.
ListOf(S) ==
    IF S = {} THEN <<>>
    ELSE LET m == CHOOSE i \in S : \A j \in S : j <= i
         IN  Append(ListOf(S \ {m}), Catalogue[m])

Rosters == {ListOf(S) : S \in {T \in SUBSET CatalogueIds : Cardinality(T) <= MaxRoster}}

BudgetValues == {-1, 2, 6}

MaxPerCountryValues == {-1, 0, 1, 2}

LockedValues == {<<>>, <<1>>, <<2, 1, 5>>}

ExcludedValues == {<<>>, <<1, 6>>}

-----------------------------------------------------------------------------
(* Helpers *)

RECURSIVE SumSeq(_)
SumSeq(s) == IF s = <<>> THEN 0 ELSE Head(s) + SumSeq(Tail(s))

Range(s) == {s[i] : i \in 1..Len(s)}

Ids(s) == {s[i].id : i \in 1..Len(s)}

\* The value of a binary variable: v is the set of ids whose variable is 1.
Val(v, id) == IF id \in v THEN 1 ELSE 0

Max(S) == CHOOSE m \in S : \A n \in S : n <= m

StartingXV(props, hooker, second_row, back_row, scrum_half, out_half, centres, back_3) ==
    [props |-> props, hooker |-> hooker, second_row |-> second_row,
     back_row |-> back_row, scrum_half |-> scrum_half, out_half |-> out_half,
     centres |-> centres, back_3 |-> back_3]

OptimisedTeam(xv, bench, captain, super_sub, cost, points, remaining, empty) ==
    [starting_xv |-> xv, bench |-> bench, captain |-> captain,
     super_sub |-> super_sub, total_cost |-> cost,
     total_predicted_points |-> points, remaining_budget |-> remaining,
     empty_slots |-> empty]

\* Variant: the failure return leaves empty_slots at its default.
EmptyTeamNoSlots ==
    OptimisedTeam(StartingXV(<<>>, None, <<>>, <<>>, None, None, <<>>, <<>>),
                  <<>>, None, None, 0, 0, budget, <<>>)

\* The team of the two failure returns.
EmptyTeam ==
    OptimisedTeam(StartingXV(<<>>, None, <<>>, <<>>, None, None, <<>>, <<>>),
                  <<>>, None, None, 0, 0, budget, Position)

-----------------------------------------------------------------------------
(* Phase 1: the availability filter *)

InList(id, list) == \E i \in 1..Len(list) : list[i] = id

\* Variant: the filter forgets the excluded list.
IsCandidateIgnoringExcluded(p) == p.is_available

IsCandidate(p) == p.is_available /\ ~InList(p.id, excluded_players)

AvailablePlayers == SelectSeq(players, IsCandidate)

Filter ==
    /\ pc = "filter"
    /\ available_players' = AvailablePlayers
    /\ IF AvailablePlayers = <<>>
          THEN /\ result' = EmptyTeam
               /\ pc' = "done"
          ELSE /\ result' = result
               /\ pc' = "solve"
    /\ UNCHANGED <<args, status, sol, scoringVars, predictorVars,
                   validationVars, restVars>>

-----------------------------------------------------------------------------
(* Phase 2: the 0/1 program *)

\* The variable maps x, b, c, s are keyed by player id.
VarIds == Ids(available_players)

AtMostOne(S) == {{}} \cup {{e} : e \in S}

\* Assignments of the four binary variables of every candidate.  An
\* assignment with two or more captains or super-subs violates the
\* "exactly one" / "forced to 0" rows whatever else it sets, so only those
\* with at most one of each are enumerated.
Assignments ==
    [x : SUBSET VarIds, b : SUBSET VarIds, c : AtMostOne(VarIds), s : AtMostOne(VarIds)]

\* Variant: the objective without the captain bonus.
ObjectiveNoCaptainBonus(a) ==
    SumSeq([i \in 1..Len(available_players) |->
        LET p == available_players[i] IN
              2 * p.predicted_points * Val(a.x, p.id)
            +     p.predicted_points * Val(a.b, p.id)
            + 5 * p.predicted_points * Val(a.s, p.id)])

\* Twice the objective.
Objective(a) ==
    SumSeq([i \in 1..Len(available_players) |->
        LET p == available_players[i] IN
              2 * p.predicted_points * Val(a.x, p.id)
            +     p.predicted_points * Val(a.b, p.id)
            + 2 * p.predicted_points * Val(a.c, p.id)
            + 5 * p.predicted_points * Val(a.s, p.id)])

\* Variant: the budget row prices the starters only.
BudgetConstraintStartersOnly(a) ==
    SumSeq([i \in 1..Len(available_players) |->
        LET p == available_players[i] IN p.price * Val(a.x, p.id)]) <= budget

BudgetConstraint(a) ==
    SumSeq([i \in 1..Len(available_players) |->
        LET p == available_players[i] IN
            p.price * (Val(a.x, p.id) + Val(a.b, p.id))]) <= budget

PositionLimit(a, position) ==
    LET position_players == SelectSeq(available_players,
                                LAMBDA p : p.fantasy_position = position)
    IN  position_players # <<>> =>
            SumSeq([i \in 1..Len(position_players) |->
                Val(a.x, position_players[i].id)]) <= POSITION_LIMITS[position]

PositionLimits(a) == \A position \in PositionSet : PositionLimit(a, position)

\* Variant: the bench row ignores include_bench.
BenchLimitAlways(a) ==
    SumSeq([i \in 1..Len(available_players) |->
        Val(a.b, available_players[i].id)]) <= 3

BenchLimit(a) ==
    IF include_bench
       THEN SumSeq([i \in 1..Len(available_players) |->
                Val(a.b, available_players[i].id)]) <= 3
       ELSE \A i \in 1..Len(available_players) :
                Val(a.b, available_players[i].id) = 0

\* Variant: the country row counts the starters only.
CountryLimitStartersOnly(a) ==
    \A country \in Country :
        LET country_players == SelectSeq(available_players,
                                   LAMBDA p : p.country = country)
        IN  country_players # <<>> =>
                SumSeq([i \in 1..Len(country_players) |->
                    Val(a.x, country_players[i].id)]) <= max_per_country

CountryLimit(a) ==
    \A country \in Country :
        LET country_players == SelectSeq(available_players,
                                   LAMBDA p : p.country = country)
        IN  country_players # <<>> =>
                SumSeq([i \in 1..Len(country_players) |->
                    Val(a.x, country_players[i].id)
                  + Val(a.b, country_players[i].id)]) <= max_per_country

\* Variant: the one-slot row allows both slots.
OneSlotOrBoth(a) ==
    \A i \in 1..Len(available_players) :
        LET p == available_players[i] IN Val(a.x, p.id) + Val(a.b, p.id) <= 2

OneSlot(a) ==
    \A i \in 1..Len(available_players) :
        LET p == available_players[i] IN Val(a.x, p.id) + Val(a.b, p.id) <= 1

CaptainConstraint(a) ==
    /\ SumSeq([i \in 1..Len(available_players) |->
            Val(a.c, available_players[i].id)]) = 1
    /\ \A i \in 1..Len(available_players) :
            LET p == available_players[i]
            IN  Val(a.c, p.id) <= Val(a.x, p.id) + Val(a.b, p.id)

\* Variant: the super-sub is tied to any selected player, not to the bench.
SuperSubAnySelected(a) ==
    IF include_bench
       THEN /\ SumSeq([i \in 1..Len(available_players) |->
                    Val(a.s, available_players[i].id)]) = 1
            /\ \A i \in 1..Len(available_players) :
                    LET p == available_players[i]
                    IN  Val(a.s, p.id) <= Val(a.x, p.id) + Val(a.b, p.id)
       ELSE \A i \in 1..Len(available_players) :
                Val(a.s, available_players[i].id) = 0

SuperSubConstraint(a) ==
    IF include_bench
       THEN /\ SumSeq([i \in 1..Len(available_players) |->
                    Val(a.s, available_players[i].id)]) = 1
            /\ \A i \in 1..Len(available_players) :
                    LET p == available_players[i]
                    IN  Val(a.s, p.id) <= Val(a.b, p.id)
       ELSE \A i \in 1..Len(available_players) :
                Val(a.s, available_players[i].id) = 0

\* Variant: the locked row is added for ids that have no variable too.
LockedConstraintUnguarded(a) ==
    \A i \in 1..Len(locked_players) :
        LET player_id == locked_players[i]
        IN  Val(a.x, player_id) + Val(a.b, player_id) >= 1

\* Variant: the locked row is written >= 0.
LockedConstraintVacuous(a) ==
    \A i \in 1..Len(locked_players) :
        LET player_id == locked_players[i]
        IN  player_id \in VarIds => Val(a.x, player_id) + Val(a.b, player_id) >= 0

LockedConstraint(a) ==
    \A i \in 1..Len(locked_players) :
        LET player_id == locked_players[i]
        IN  player_id \in VarIds => Val(a.x, player_id) + Val(a.b, player_id) >= 1

\* The rows that read only x and b.
SatisfiesSlots(a) ==
    /\ OneSlot(a)
    /\ BenchLimit(a)
    /\ LockedConstraint(a)
    /\ PositionLimits(a)
    /\ CountryLimit(a)
    /\ BudgetConstraint(a)

\* The rows that also read c and s.
SatisfiesRoles(a) ==
    /\ CaptainConstraint(a)
    /\ SuperSubConstraint(a)

Satisfies(a) == SatisfiesSlots(a) /\ SatisfiesRoles(a)

\* {a \in Assignments : Satisfies(a)}, enumerated slots first.
Feasible ==
    UNION { {a \in [x : {q.x}, b : {q.b}, c : AtMostOne(VarIds), s : AtMostOne(VarIds)] :
                SatisfiesRoles(a)} :
            q \in {r \in [x : SUBSET VarIds, b : SUBSET VarIds] : SatisfiesSlots(r)} }

\* prob.solve(): the solver reports Optimal with a maximiser of the objective
\* over the feasible assignments (any of them when several tie), and
\* Infeasible when there is none.
Optimal(F) ==
    LET best == Max({Objective(a) : a \in F})
    IN  {a \in F : Objective(a) = best}

Solve ==
    /\ pc = "solve"
    /\ LET F == Feasible IN
       IF F = {}
          THEN /\ status' = "Infeasible"
               /\ sol' = sol
               /\ result' = EmptyTeam
               /\ pc' = "done"
          ELSE /\ status' = "Optimal"
               /\ sol' \in Optimal(F)
               /\ result' = result
               /\ pc' = "extract"
    /\ UNCHANGED <<args, available_players, scoringVars, predictorVars,
                   validationVars, restVars>>

-----------------------------------------------------------------------------
(* Phase 3: the team returned *)

PlayerSummary(p) == p

Summaries == [i \in 1..Len(available_players) |-> PlayerSummary(available_players[i])]

StartingPlayers == SelectSeq(Summaries, LAMBDA p : Val(sol.x, p.id) = 1)

BenchPlayers == SelectSeq(Summaries, LAMBDA p : Val(sol.b, p.id) = 1)

\* The last player of the loop whose flag is set, or None.
LastWith(v) ==
    LET hit == SelectSeq(Summaries, LAMBDA p : Val(v, p.id) = 1)
    IN  IF hit = <<>> THEN None ELSE hit[Len(hit)]

CaptainPlayer == LastWith(sol.c)

SuperSubPlayer == LastWith(sol.s)

AtPosition(list, position) ==
    SelectSeq(list, LAMBDA p : p.fantasy_position = position)

\* next((p for p in ... if ...), None)
FirstAt(list, position) ==
    LET hit == AtPosition(list, position)
    IN  IF hit = <<>> THEN None ELSE hit[1]

BuildStartingXV(starting_players) ==
    StartingXV(AtPosition(starting_players, "prop"),
               FirstAt(starting_players, "hooker"),
               AtPosition(starting_players, "second_row"),
               AtPosition(starting_players, "back_row"),
               FirstAt(starting_players, "scrum_half"),
               FirstAt(starting_players, "out_half"),
               AtPosition(starting_players, "centre"),
               AtPosition(starting_players, "back_3"))

\* Variant: the cost leaves out the bench.
TotalCostStartersOnly(starting_players, bench_players) ==
    SumSeq([i \in 1..Len(starting_players) |-> starting_players[i].price])

TotalCost(starting_players, bench_players) ==
    SumSeq([i \in 1..Len(starting_players \o bench_players) |->
                (starting_players \o bench_players)[i].price])

\* In half points.
TotalPredictedPoints(starting_players, bench_players, captain_player, super_sub_player) ==
    LET base_points == SumSeq([i \in 1..Len(starting_players) |->
                            2 * starting_players[i].predicted_points])
        bench_points == SumSeq([i \in 1..Len(bench_players) |->
                            bench_players[i].predicted_points])
        captain_bonus == IF captain_player # None
                            THEN 2 * captain_player.predicted_points ELSE 0
        super_sub_bonus == IF super_sub_player # None
                            THEN 5 * super_sub_player.predicted_points ELSE 0
    IN  base_points + bench_points + captain_bonus + super_sub_bonus

\* The number of starters the view shows at a position.
Shown(xv, position) ==
    CASE position = "prop"       -> Len(xv.props)
      [] position = "hooker"     -> IF xv.hooker = None THEN 0 ELSE 1
      [] position = "second_row" -> Len(xv.second_row)
      [] position = "back_row"   -> Len(xv.back_row)
      [] position = "scrum_half" -> IF xv.scrum_half = None THEN 0 ELSE 1
      [] position = "out_half"   -> IF xv.out_half = None THEN 0 ELSE 1
      [] position = "centre"     -> Len(xv.centres)
      [] position = "back_3"     -> Len(xv.back_3)

\* Variant: the prop slot counts as filled by one prop.
SlotSizeOneProp(position) ==
    CASE position = "prop"       -> 1
      [] position = "hooker"     -> 1
      [] position = "second_row" -> 2
      [] position = "back_row"   -> 3
      [] position = "scrum_half" -> 1
      [] position = "out_half"   -> 1
      [] position = "centre"     -> 2
      [] position = "back_3"     -> 3

SlotSize(position) ==
    CASE position = "prop"       -> 2
      [] position = "hooker"     -> 1
      [] position = "second_row" -> 2
      [] position = "back_row"   -> 3
      [] position = "scrum_half" -> 1
      [] position = "out_half"   -> 1
      [] position = "centre"     -> 2
      [] position = "back_3"     -> 3

EmptySlots(xv) ==
    SelectSeq(Position, LAMBDA position : Shown(xv, position) < SlotSize(position))

Extract ==
    /\ pc = "extract"
    /\ LET xv == BuildStartingXV(StartingPlayers)
           total_cost == TotalCost(StartingPlayers, BenchPlayers)
       IN  result' = OptimisedTeam(xv, BenchPlayers, CaptainPlayer, SuperSubPlayer,
                        total_cost,
                        TotalPredictedPoints(StartingPlayers, BenchPlayers,
                                             CaptainPlayer, SuperSubPlayer),
                        budget - total_cost,
                        EmptySlots(xv))
    /\ pc' = "done"
    /\ UNCHANGED <<args, available_players, status, sol, scoringVars, predictorVars,
                   validationVars, restVars>>

-----------------------------------------------------------------------------

\* No call of optimise_team is made.
OptimiserIdle ==
    /\ players = <<>>
    /\ budget = 0
    /\ max_per_country = 0
    /\ locked_players = <<>>
    /\ excluded_players = <<>>
    /\ include_bench = FALSE
    /\ available_players = <<>>
    /\ status = "Not Solved"
    /\ sol = [x |-> {}, b |-> {}, c |-> {}, s |-> {}]
    /\ result = None

\* No call of calculate_fantasy_points is made.
ScoringIdle == stats = None /\ fantasy_points = None

\* No Predictor is constructed.
PredictorIdle ==
    /\ JOBLIB_AVAILABLE = FALSE
    /\ path_exists = FALSE
    /\ load_raises = FALSE
    /\ model = None
    /\ features = None
    /\ unrounded_points = None
    /\ prediction = None

\* No call of app/fixtures.py is made.
FixturesIdle == utcnow = 0 /\ fx_call = None /\ fx_return = None

\* The services modelled after the first four are not used.
\* No scrape job exists.
JobsIdle == _jobs = <<>> /\ _tasks = <<>> /\ job_return = None

\* No "missing markets" scrape is followed.
MissingIdle == match_odds = <<>> /\ per_match_missing = None /\ scraped = {}

\* No prediction is generated or read.
PredictionsIdle == predictions = <<>> /\ optimiser_players = None

\* The endpoints of the api are not called.
ApiIdle == JobsIdle /\ MissingIdle /\ PredictionsIdle

RestIdle == FixturesIdle /\ ApiIdle

\* No call of validate_round_data is made.
ValidationIdle ==
    /\ match_data = <<>>
    /\ has_prices = FALSE
    /\ played_matches = None
    /\ warnings = None

Init ==
    /\ players \in Rosters
    /\ budget \in BudgetValues
    /\ max_per_country \in MaxPerCountryValues
    /\ locked_players \in LockedValues
    /\ excluded_players \in ExcludedValues
    /\ include_bench \in BOOLEAN
    /\ available_players = <<>>
    /\ status = "Not Solved"
    /\ sol = [x |-> {}, b |-> {}, c |-> {}, s |-> {}]
    /\ result = None
    /\ pc = "filter"
    /\ ScoringIdle
    /\ PredictorIdle
    /\ ValidationIdle
    /\ RestIdle

Next == Filter \/ Solve \/ Extract

Spec == Init /\ [][Next]_vars

-----------------------------------------------------------------------------
(* services/scoring.py *)

CountFields ==
    {"tries", "try_assists", "conversions", "penalties_kicked", "drop_goals",
     "defenders_beaten", "metres_carried", "offloads", "fifty_22_kicks",
     "scrums_won", "tackles_made", "turnovers_won", "lineout_steals",
     "penalties_conceded", "yellow_cards", "red_cards"}

FlagFields == {"player_of_match", "is_forward"}

StatFields == CountFields \cup FlagFields

\* The dataclass constructor: every field not given takes its default.
PlayerStats(kwargs) ==
    [field \in StatFields |->
        IF field \in DOMAIN kwargs THEN kwargs[field]
        ELSE IF field \in FlagFields THEN FALSE ELSE 0]

\* Variant: scrums won are counted for backs too.
calculate_fantasy_points_ScrumsForAll(arg) ==
    LET st == IF arg.type = "dict" THEN PlayerStats(arg.value) ELSE arg.value
    IN    (IF st.is_forward THEN st.tries * 15 ELSE st.tries * 10)
        + st.try_assists * 4 + st.conversions * 2 + st.penalties_kicked * 3
        + st.drop_goals * 5 + st.defenders_beaten * 2
        + (st.metres_carried \div 10) + st.offloads * 2
        + st.fifty_22_kicks * 7 + st.scrums_won * 1
        + st.tackles_made * 1 + st.turnovers_won * 5 + st.lineout_steals * 7
        + (IF st.player_of_match THEN 15 ELSE 0)
        - st.penalties_conceded * 1 - st.yellow_cards * 5 - st.red_cards * 8

\* arg is [type, value]: type "PlayerStats" with value a full stat line, or
\* type "dict" with value the dict.  The running total is followed line by
\* line; it is a whole number throughout, so float(points) changes nothing.
calculate_fantasy_points(arg) ==
    LET st  == IF arg.type = "dict" THEN PlayerStats(arg.value) ELSE arg.value
        p0  == 0
        p1  == IF st.is_forward THEN p0 + st.tries * 15 ELSE p0 + st.tries * 10
        p2  == p1 + st.try_assists * 4
        p3  == p2 + st.conversions * 2
        p4  == p3 + st.penalties_kicked * 3
        p5  == p4 + st.drop_goals * 5
        p6  == p5 + st.defenders_beaten * 2
        p7  == p6 + (st.metres_carried \div 10)
        p8  == p7 + st.offloads * 2
        p9  == p8 + st.fifty_22_kicks * 7
        p10 == IF st.is_forward THEN p9 + st.scrums_won * 1 ELSE p9
        p11 == p10 + st.tackles_made * 1
        p12 == p11 + st.turnovers_won * 5
        p13 == p12 + st.lineout_steals * 7
        p14 == IF st.player_of_match THEN p13 + 15 ELSE p13
        p15 == p14 - st.penalties_conceded * 1
        p16 == p15 - st.yellow_cards * 5
    IN  p16 - st.red_cards * 8

\* The largest count in a stat line, and the most counts that are not zero.
MaxCount == 2

MaxNonZero == 2

\* Metres are not a small count: 9, 24, 39, ... so that the division by 10
\* rounds down.
Metres(k) == 15 * k - 6

\* Up to MaxNonZero counts, as keyword arguments: n[field] of each.
CountKwargs(n) ==
    [field \in DOMAIN n |->
        IF field = "metres_carried" THEN Metres(n[field]) ELSE n[field]]

\* The flags that are set, as keyword arguments.
FlagKwargs == UNION { [D -> {TRUE}] : D \in SUBSET FlagFields }

Merge(f, g) ==
    [field \in DOMAIN f \cup DOMAIN g |->
        IF field \in DOMAIN f THEN f[field] ELSE g[field]]

\* A stat line is built as PlayerStats(tries=1, is_forward=True) or handed
\* over as the dict {"tries": 1, "is_forward": True}.
StatsArgument(type, kwargs) ==
    IF type = "dict" THEN [type |-> "dict", value |-> kwargs]
    ELSE [type |-> "PlayerStats", value |-> PlayerStats(kwargs)]

CalculateFantasyPoints ==
    /\ pc = "calculate_fantasy_points"
    /\ fantasy_points' = calculate_fantasy_points(stats)
    /\ pc' = "scored"
    /\ UNCHANGED <<optimiserVars, stats, predictorVars, validationVars,
                   restVars>>

InitScoring ==
    /\ OptimiserIdle
    /\ \E D \in SUBSET CountFields :
          /\ Cardinality(D) <= MaxNonZero
          /\ \E n \in [D -> 1..MaxCount], f \in FlagKwargs,
                type \in {"PlayerStats", "dict"} :
                stats = StatsArgument(type, Merge(CountKwargs(n), f))
    /\ fantasy_points = None
    /\ PredictorIdle
    /\ ValidationIdle
    /\ RestIdle
    /\ pc = "calculate_fantasy_points"

NextScoring == CalculateFantasyPoints

SpecScoring == InitScoring /\ [][NextScoring]_vars

-----------------------------------------------------------------------------
(* services/predictor.py *)

(***************************************************************************)
(* Numbers.  Every amount of points in this section is a whole number of   *)
(* units of 10^-7 point, so that x 0.6, x 0.4, x 0.95, x 0.2 and x 1.645   *)
(* are exact; the inputs are chosen so that every division below leaves no *)
(* remainder.  Binary floating point is not followed: round(.., 2) is the  *)
(* rounding of the exact decimal amount, ties to the even neighbour.       *)
(***************************************************************************)
Pts(n) == n * 10000000

\* A float that may be None is None or [float |-> value].
Some(v) == [float |-> v]

\* The object joblib.load returns.
TrainedModel == [trained |-> TRUE]

\* The fields of PlayerFeatures that the heuristic reads; the rolling
\* tries, tackles, metres and turnovers are read by to_array only.
PlayerFeatures(fp3, fp5, kicker, forward, home, starting, odds) ==
    [fantasy_points_last_3 |-> fp3, fantasy_points_last_5 |-> fp5,
     is_kicker |-> kicker, is_forward |-> forward,
     is_home |-> home, is_starting |-> starting,
     anytime_try_odds |-> odds]

\* Variant: an exception of joblib.load leaves _load_model.
load_model_Uncaught(joblib_available, exists, raises) ==
    IF joblib_available /\ exists
    THEN IF raises THEN [model |-> None, raised |-> TRUE]
                   ELSE [model |-> TrainedModel, raised |-> FALSE]
    ELSE [model |-> None, raised |-> FALSE]

\* __init__ sets self.model = None and calls _load_model: the model that
\* is left, and whether an exception leaves the constructor.
load_model(joblib_available, exists, raises) ==
    IF joblib_available /\ exists
    THEN IF raises THEN [model |-> None, raised |-> FALSE]
                   ELSE [model |-> TrainedModel, raised |-> FALSE]
    ELSE [model |-> None, raised |-> FALSE]

\* round(v, 2)
Round2(v) ==
    LET q == v \div 100000
        r == v % 100000
        n == IF 2 * r < 100000 THEN q
             ELSE IF 2 * r > 100000 THEN q + 1
             ELSE IF q % 2 = 0 THEN q ELSE q + 1
    IN  n * 100000

\* max(3.0, v * 0.2)
StdEstimate(v) == Max({Pts(3), (v * 2) \div 10})

\* 1.645 * std
Z(std) == (std \div 1000) * 1645

\* Variant: the kicker bonus is added after the bench and away factors.
HeuristicBasePointsKickerLast(f) ==
    LET b0 == (f.fantasy_points_last_3 * 6) \div 10
                + (f.fantasy_points_last_5 * 4) \div 10
        b1 == IF b0 = 0 THEN (IF f.is_forward THEN Pts(12) ELSE Pts(15)) ELSE b0
        b3 == IF ~f.is_starting THEN (b1 * 4) \div 10 ELSE b1
        b4 == IF ~f.is_home THEN (b3 \div 20) * 19 ELSE b3
        b2 == IF f.is_kicker THEN b4 + Pts(3) ELSE b4
        odds == f.anytime_try_odds
    IN  IF odds # None /\ odds.float > 0
        THEN LET try_prob == Pts(1) \div odds.float
             IN  IF f.is_forward THEN b2 + (try_prob * 15 * 3) \div 10
                                 ELSE b2 + (try_prob * 10 * 3) \div 10
        ELSE b2

\* base_points of _heuristic_predict, as it stands when the dict is built.
HeuristicBasePoints(f) ==
    LET b0 == (f.fantasy_points_last_3 * 6) \div 10
                + (f.fantasy_points_last_5 * 4) \div 10
        b1 == IF b0 = 0 THEN (IF f.is_forward THEN Pts(12) ELSE Pts(15)) ELSE b0
        b2 == IF f.is_kicker THEN b1 + Pts(3) ELSE b1
        b3 == IF ~f.is_starting THEN (b2 * 4) \div 10 ELSE b2
        b4 == IF ~f.is_home THEN (b3 \div 20) * 19 ELSE b3
        odds == f.anytime_try_odds
    IN  IF odds # None /\ odds.float > 0
        THEN LET try_prob == Pts(1) \div odds.float
             IN  IF f.is_forward THEN b4 + (try_prob * 15 * 3) \div 10
                                 ELSE b4 + (try_prob * 10 * 3) \div 10
        ELSE b4

heuristic_predict(f) ==
    LET base == HeuristicBasePoints(f)
        std_estimate == StdEstimate(base)
    IN  [predicted_points |-> Round2(base),
         confidence_lower |-> Round2(base - Z(std_estimate)),
         confidence_upper |-> Round2(base + Z(std_estimate))]

\* The branch of predict taken with a model: y is model.predict(X)[0].
model_predict(y) ==
    LET std_estimate == StdEstimate(y)
    IN  [predicted_points |-> y,
         confidence_lower |-> y - Z(std_estimate),
         confidence_upper |-> y + Z(std_estimate)]

\* Rolling fantasy point averages: no history, or 10 points a match.
FormValues == {Pts(0), Pts(10)}

\* No odds, odds of 0, and decimal odds whose inverse is an exact decimal.
OddsValues == {None, Some(0), Some(2), Some(4)}

FeaturesValues ==
    {PlayerFeatures(fp3, fp5, kicker, forward, home, starting, odds) :
        fp3 \in FormValues, fp5 \in FormValues, kicker \in BOOLEAN,
        forward \in BOOLEAN, home \in BOOLEAN, starting \in BOOLEAN,
        odds \in OddsValues}

\* What a trained model may answer.
ModelPredictions == {Pts(8), Pts(25)}

\* Predictor(model_path)
Construct ==
    /\ pc = "construct"
    /\ LET loaded == load_model(JOBLIB_AVAILABLE, path_exists, load_raises)
       IN  /\ model' = loaded.model
           /\ pc' = IF loaded.raised THEN "raised" ELSE "ready"
    /\ UNCHANGED <<optimiserVars, scoringVars, validationVars, JOBLIB_AVAILABLE,
                   path_exists, load_raises, features, unrounded_points,
                   prediction, restVars>>

\* predictor.predict(features)
Predict ==
    /\ pc \in {"ready", "predicted"}
    /\ \E f \in FeaturesValues :
          /\ features' = f
          /\ IF model = None
             THEN /\ unrounded_points' = HeuristicBasePoints(f)
                  /\ prediction' = heuristic_predict(f)
             ELSE /\ unrounded_points' = unrounded_points
                  /\ \E y \in ModelPredictions : prediction' = model_predict(y)
    /\ pc' = "predicted"
    /\ UNCHANGED <<optimiserVars, scoringVars, validationVars, JOBLIB_AVAILABLE,
                   path_exists, load_raises, model, restVars>>

InitPredictor ==
    /\ OptimiserIdle
    /\ ScoringIdle
    /\ JOBLIB_AVAILABLE \in BOOLEAN
    /\ path_exists \in BOOLEAN
    /\ load_raises \in BOOLEAN
    /\ model = None
    /\ features = None
    /\ unrounded_points = None
    /\ prediction = None
    /\ ValidationIdle
    /\ RestIdle
    /\ pc = "construct"

NextPredictor == Construct \/ Predict

SpecPredictor == InitPredictor /\ [][NextPredictor]_vars

-----------------------------------------------------------------------------
(* services/validation_service.py *)

STALE_THRESHOLD_HOURS == 24

MIN_TRY_SCORER_PLAYERS == 20

EXPECTED_SQUAD_SIZE == 23

HIGH_UNKNOWN_THRESHOLD == 10

(***************************************************************************)
(* Time is kept in whole hours.  A datetime is [hour, tzinfo]: hour is the *)
(* wall-clock reading and tzinfo is None (naive) or [utcoffset |-> hours]. *)
(***************************************************************************)
Datetime(hour, tzinfo) == [hour |-> hour, tzinfo |-> tzinfo]

UTC == [utcoffset |-> 0]

ensure_aware(dt) ==
    IF dt = None THEN None
    ELSE IF dt.tzinfo = None THEN [dt EXCEPT !.tzinfo = UTC]
    ELSE dt

\* a - b for two aware datetimes, in hours.
HoursBetween(a, b) ==
    (a.hour - a.tzinfo.utcoffset) - (b.hour - b.tzinfo.utcoffset)

\* datetime.now(timezone.utc)
UtcNow == Datetime(1000, UTC)

MatchLabel(match) == match.home_team \o " v " \o match.away_team

\* The warning dicts, without their "message" text.
\* Rule 4
MissingMarkets(match) ==
    IF ~match.has_handicap \/ ~match.has_totals \/ ~match.has_try_scorer
    THEN << [type |-> "missing_markets", match |-> MatchLabel(match),
             action |-> "scrape_missing",
             action_params |-> [match |-> MatchLabel(match)]] >>
    ELSE <<>>

\* Variant: a squad of exactly twice EXPECTED_SQUAD_SIZE is incomplete too.
IncompleteSquadInclusive(match, prices) ==
    IF prices /\ match.squad_count <= EXPECTED_SQUAD_SIZE * 2
    THEN << [type |-> "incomplete_squad", match |-> MatchLabel(match),
             team |-> match.home_team \o "/" \o match.away_team,
             count |-> match.squad_count, expected |-> EXPECTED_SQUAD_SIZE,
             action |-> "re_scrape_prices"] >>
    ELSE <<>>

\* Rule 1
IncompleteSquad(match, prices) ==
    LET expected_match_squad == EXPECTED_SQUAD_SIZE * 2
    IN  IF prices /\ match.squad_count < expected_match_squad
        THEN << [type |-> "incomplete_squad", match |-> MatchLabel(match),
                 team |-> match.home_team \o "/" \o match.away_team,
                 count |-> match.squad_count, expected |-> EXPECTED_SQUAD_SIZE,
                 action |-> "re_scrape_prices"] >>
        ELSE <<>>

Markets ==
    << [market |-> "handicaps", key |-> "handicap_scraped_at",
        action |-> "re_scrape_handicaps"],
       [market |-> "totals", key |-> "totals_scraped_at",
        action |-> "re_scrape_totals"],
       [market |-> "try scorers", key |-> "try_scorer_scraped_at",
        action |-> "re_scrape_try_scorers"] >>

\* Variant: odds of exactly STALE_THRESHOLD_HOURS are stale too.
StaleMarketInclusive(match, m, now) ==
    LET scraped_at == ensure_aware(match[m.key])
    IN  IF scraped_at # None
           /\ HoursBetween(now, scraped_at) >= STALE_THRESHOLD_HOURS
        THEN << [type |-> "stale_odds", match |-> MatchLabel(match),
                 market |-> m.market,
                 hours_old |-> HoursBetween(now, scraped_at),
                 action |-> m.action,
                 action_params |-> [match |-> MatchLabel(match)]] >>
        ELSE <<>>

\* Rule 3, one market
StaleMarket(match, m, now) ==
    LET scraped_at == ensure_aware(match[m.key])
    IN  IF scraped_at # None
           /\ HoursBetween(now, scraped_at) > STALE_THRESHOLD_HOURS
        THEN << [type |-> "stale_odds", match |-> MatchLabel(match),
                 market |-> m.market,
                 hours_old |-> HoursBetween(now, scraped_at),
                 action |-> m.action,
                 action_params |-> [match |-> MatchLabel(match)]] >>
        ELSE <<>>

\* Rule 3
StaleOdds(match, now) ==
    StaleMarket(match, Markets[1], now) \o StaleMarket(match, Markets[2], now)
        \o StaleMarket(match, Markets[3], now)

\* Rule 2
PreSquadOdds(match) ==
    LET ts_scraped == ensure_aware(match.try_scorer_scraped_at)
    IN  IF match.has_try_scorer /\ ts_scraped # None
           /\ match.unknown_availability >= HIGH_UNKNOWN_THRESHOLD
        THEN << [type |-> "pre_squad_odds", match |-> MatchLabel(match),
                 market |-> "try_scorer", action |-> "re_scrape_try_scorer",
                 action_params |-> [match |-> MatchLabel(match)]] >>
        ELSE <<>>

\* Rule 8
SuspiciouslyFewOdds(match) ==
    IF match.has_try_scorer /\ match.try_scorer_count < MIN_TRY_SCORER_PLAYERS
    THEN << [type |-> "suspiciously_few_odds", match |-> MatchLabel(match),
             count |-> match.try_scorer_count,
             action |-> "re_scrape_try_scorer",
             action_params |-> [match |-> MatchLabel(match)]] >>
    ELSE <<>>

\* Rule 7
MissingPlayerOdds(match) ==
    IF match.squad_count >= EXPECTED_SQUAD_SIZE * 2
       /\ match.unknown_availability = 0
       /\ match.players_with_odds < match.squad_count
    THEN << [type |-> "missing_player_odds", match |-> MatchLabel(match),
             missing_count |-> match.squad_count - match.players_with_odds,
             action |-> "re_scrape_try_scorer",
             action_params |-> [match |-> MatchLabel(match)]] >>
    ELSE <<>>

\* One turn of the loop over match_data.
MatchWarnings(match, prices, now) ==
    MissingMarkets(match) \o IncompleteSquad(match, prices)
        \o StaleOdds(match, now) \o PreSquadOdds(match)
        \o SuspiciouslyFewOdds(match) \o MissingPlayerOdds(match)

RECURSIVE AllMatchWarnings(_, _, _)
AllMatchWarnings(md, prices, now) ==
    IF md = <<>> THEN <<>>
    ELSE MatchWarnings(Head(md), prices, now)
            \o AllMatchWarnings(Tail(md), prices, now)

\* Rule 6
AvailabilityUnknown(md, prices) ==
    LET total_unknown ==
            SumSeq([i \in 1..Len(md) |-> md[i].unknown_availability])
    IN  IF prices /\ total_unknown > 0
        THEN << [type |-> "availability_unknown", count |-> total_unknown,
                 action |-> "re_scrape_prices"] >>
        ELSE <<>>

\* price_count, price_scraped_at, has_stats and stats_scraped_at are not read.
validate_round_data(md, prices, now) ==
    AllMatchWarnings(md, prices, now) \o AvailabilityUnknown(md, prices)

\* The most matches in a round.
MaxMatches == 2

Fixtures ==
    << [home_team |-> "France", away_team |-> "Ireland"],
       [home_team |-> "England", away_team |-> "Wales"],
       [home_team |-> "Scotland", away_team |-> "Italy"],
       [home_team |-> "Ireland", away_team |-> "England"] >>

HoursAgo(h) == Datetime(UtcNow.hour - h, UTC)

\* The scrape times of handicaps, totals and try scorers: all an hour old,
\* all two days old, handicaps alone 30 hours old, all exactly 24 hours
\* old, try scorers alone two days old and naive, handicaps 25 hours old on
\* a clock two hours ahead of UTC with no try scorers, and none scraped.
ScrapeTimes ==
    { <<HoursAgo(1), HoursAgo(1), HoursAgo(1)>>,
      <<HoursAgo(48), HoursAgo(48), HoursAgo(48)>>,
      <<HoursAgo(30), HoursAgo(1), HoursAgo(1)>>,
      <<HoursAgo(24), HoursAgo(24), HoursAgo(24)>>,
      <<HoursAgo(1), HoursAgo(1), Datetime(UtcNow.hour - 48, None)>>,
      <<Datetime(UtcNow.hour - 25 + 2, [utcoffset |-> 2]), HoursAgo(1), None>>,
      <<None, None, None>> }

\* The markets present and the counts of a match: both squads named and
\* priced with odds for all; one squad's worth; a partial odds scrape; odds
\* scraped before the squads; handicaps only.
MatchCounts ==
    { [has_handicap |-> TRUE, has_totals |-> TRUE, has_try_scorer |-> TRUE,
       try_scorer_count |-> 30, squad_count |-> 46,
       unknown_availability |-> 0, players_with_odds |-> 46],
      [has_handicap |-> TRUE, has_totals |-> TRUE, has_try_scorer |-> TRUE,
       try_scorer_count |-> 30, squad_count |-> 23,
       unknown_availability |-> 0, players_with_odds |-> 23],
      [has_handicap |-> TRUE, has_totals |-> TRUE, has_try_scorer |-> TRUE,
       try_scorer_count |-> 12, squad_count |-> 46,
       unknown_availability |-> 0, players_with_odds |-> 12],
      [has_handicap |-> TRUE, has_totals |-> TRUE, has_try_scorer |-> TRUE,
       try_scorer_count |-> 30, squad_count |-> 23,
       unknown_availability |-> 15, players_with_odds |-> 20],
      [has_handicap |-> TRUE, has_totals |-> FALSE, has_try_scorer |-> FALSE,
       try_scorer_count |-> 0, squad_count |-> 23,
       unknown_availability |-> 0, players_with_odds |-> 0] }

Match(fixture, counts, times) ==
    [home_team |-> fixture.home_team, away_team |-> fixture.away_team,
     has_handicap |-> counts.has_handicap, has_totals |-> counts.has_totals,
     has_try_scorer |-> counts.has_try_scorer,
     handicap_scraped_at |-> times[1], totals_scraped_at |-> times[2],
     try_scorer_scraped_at |-> times[3],
     try_scorer_count |-> counts.try_scorer_count,
     squad_count |-> counts.squad_count,
     unknown_availability |-> counts.unknown_availability,
     players_with_odds |-> counts.players_with_odds]

\* A round: the i-th match is between the i-th fixture's teams.
MatchData(c, s) == [i \in DOMAIN c |-> Match(Fixtures[i], c[i], s[i])]

\* The keyword is left out, or passed with a set of labels.
PlayedMatchesValues ==
    { [passed |-> FALSE, value |-> {}],
      [passed |-> TRUE, value |-> {}],
      [passed |-> TRUE, value |-> {MatchLabel(Fixtures[1])}],
      [passed |-> TRUE,
       value |-> {MatchLabel(Fixtures[1]), MatchLabel(Fixtures[2])}] }

\* validate_round_data(match_data, has_prices=..., price_count=...,
\* price_scraped_at=...[, played_matches=...]).  The function has no
\* played_matches parameter, so a call that passes the keyword is refused
\* with a TypeError before the body runs.
ValidateRoundData ==
    /\ pc = "validate_round_data"
    /\ IF played_matches.passed
       THEN /\ pc' = "TypeError"
            /\ warnings' = warnings
       ELSE /\ pc' = "validated"
            /\ warnings' = validate_round_data(match_data, has_prices, UtcNow)
    /\ UNCHANGED <<optimiserVars, scoringVars, predictorVars, match_data,
                   has_prices, played_matches, restVars>>

InitValidation ==
    /\ OptimiserIdle
    /\ ScoringIdle
    /\ PredictorIdle
    /\ \E n \in 0..MaxMatches :
          \E c \in [1..n -> MatchCounts], s \in [1..n -> ScrapeTimes] :
              match_data = MatchData(c, s)
    /\ has_prices \in BOOLEAN
    /\ played_matches \in PlayedMatchesValues
    /\ warnings = None
    /\ RestIdle
    /\ pc = "validate_round_data"

NextValidation == ValidateRoundData

SpecValidation == InitValidation /\ [][NextValidation]_vars

-----------------------------------------------------------------------------
(* app/fixtures.py *)

\* A datetime of February or March 2026 (UTC), in minutes since
\* 2026-02-01 00:00.
At(month, day, hour, minute) ==
    (((IF month = 2 THEN 0 ELSE 28) + day - 1) * 24 + hour) * 60 + minute

Fixture(season, round, home, away, kickoff) ==
    [key |-> <<season, round, home, away>>, kickoff |-> kickoff]

\* The dict, in the order its keys are iterated.
SIX_NATIONS_2026 ==
    << Fixture(2026, 1, "France", "Ireland",   At(2, 5, 20, 10)),
       Fixture(2026, 1, "Italy", "Scotland",   At(2, 7, 14, 10)),
       Fixture(2026, 1, "England", "Wales",    At(2, 7, 16, 40)),
       Fixture(2026, 2, "Ireland", "Italy",    At(2, 14, 14, 10)),
       Fixture(2026, 2, "Scotland", "England", At(2, 14, 16, 40)),
       Fixture(2026, 2, "Wales", "France",     At(2, 15, 15, 10)),
       Fixture(2026, 3, "England", "Ireland",  At(2, 21, 14, 10)),
       Fixture(2026, 3, "Wales", "Scotland",   At(2, 21, 16, 40)),
       Fixture(2026, 3, "France", "Italy",     At(2, 22, 15, 10)),
       Fixture(2026, 4, "Ireland", "Wales",    At(3, 6, 20, 10)),
       Fixture(2026, 4, "Scotland", "France",  At(3, 7, 14, 10)),
       Fixture(2026, 4, "Italy", "England",    At(3, 7, 16, 40)),
       Fixture(2026, 5, "Ireland", "Scotland", At(3, 14, 14, 10)),
       Fixture(2026, 5, "Wales", "Italy",      At(3, 14, 16, 40)),
       Fixture(2026, 5, "France", "England",   At(3, 14, 20, 10)) >>

\* timedelta(hours=2), in minutes
MATCH_PLAYED_BUFFER == 120

\* str.lower() on the spellings that occur.
Lower(name) ==
    CASE name \in {"France", "FRANCE"}     -> "france"
      [] name \in {"Ireland", "IRELAND"}   -> "ireland"
      [] name \in {"Italy", "ITALY"}       -> "italy"
      [] name \in {"Scotland", "SCOTLAND"} -> "scotland"
      [] name \in {"England", "ENGLAND"}   -> "england"
      [] name \in {"Wales", "WALES"}       -> "wales"
      [] name = "Argentina"                -> "argentina"
      [] OTHER                             -> name

KeyMatches(key, season, round_num, home, away) ==
    /\ key[1] = season /\ key[2] = round_num
    /\ Lower(key[3]) = Lower(home) /\ Lower(key[4]) = Lower(away)

\* The fixture of the canonical key, or None.
normalize_key(season, round_num, home, away) ==
    LET found == SelectSeq(SIX_NATIONS_2026,
                    LAMBDA f : KeyMatches(f.key, season, round_num, home, away))
    IN  IF found = <<>> THEN None ELSE Head(found)

\* Variant: a match counts as played from kickoff + 2h on.
is_match_played_AtBuffer(season, round_num, home, away, now) ==
    LET f == normalize_key(season, round_num, home, away)
    IN  IF f = None THEN FALSE
        ELSE now >= f.kickoff + MATCH_PLAYED_BUFFER

is_match_played(season, round_num, home, away, now) ==
    LET f == normalize_key(season, round_num, home, away)
    IN  IF f = None THEN FALSE
        ELSE now > f.kickoff + MATCH_PLAYED_BUFFER

InRound(season, round_num) ==
    SelectSeq(SIX_NATIONS_2026,
              LAMBDA f : f.key[1] = season /\ f.key[2] = round_num)

KeysOf(fs) == [i \in 1..Len(fs) |-> fs[i].key]

get_upcoming_matches(season, round_num, now) ==
    KeysOf(SelectSeq(InRound(season, round_num),
                     LAMBDA f : ~is_match_played(season, round_num,
                                                 f.key[3], f.key[4], now)))

\* (home, away, kickoff) of the round, sorted by kickoff.
get_round_fixtures(season, round_num) ==
    LET fs == InRound(season, round_num)
    IN  SortSeq([i \in 1..Len(fs) |->
                    <<fs[i].key[3], fs[i].key[4], fs[i].kickoff>>],
                LAMBDA a, b : a[3] < b[3])

\* The loop of get_current_round from round rnd on.
RECURSIVE CurrentRoundFrom(_, _, _)
CurrentRoundFrom(rnd, season, now) ==
    IF rnd > 5 THEN 5
    ELSE LET fixtures == get_round_fixtures(season, rnd)
         IN  IF fixtures = <<>> THEN CurrentRoundFrom(rnd + 1, season, now)
             ELSE LET last_kickoff ==
                          Max({fixtures[i][3] : i \in 1..Len(fixtures)})
                  IN  IF now < last_kickoff + MATCH_PLAYED_BUFFER
                      THEN rnd
                      ELSE CurrentRoundFrom(rnd + 1, season, now)

get_current_round(season, now) == CurrentRoundFrom(1, season, now)

\* The instants at which an answer can change: one minute before, at, and
\* one minute after kickoff + 2h of every fixture; and the start.
Instants ==
    {0} \cup { SIX_NATIONS_2026[i].kickoff + MATCH_PLAYED_BUFFER + d :
                  i \in 1..Len(SIX_NATIONS_2026), d \in {-1, 0, 1} }

SeasonValues == {2025, 2026}

RoundValues == 1..5

TeamValues == {"France", "france", "FRANCE", "Ireland", "IRELAND", "Wales",
               "Argentina"}

\* The clock moves on to the next instant.
Tick ==
    /\ pc = "fixtures"
    /\ \E later \in Instants :
          /\ later > utcnow
          /\ \A i \in Instants : i > utcnow => later <= i
          /\ utcnow' = later
    /\ UNCHANGED <<servicesVars, apiVars, fx_call, fx_return, pc>>

IsMatchPlayed ==
    /\ pc = "fixtures"
    /\ \E season \in SeasonValues, round_num \in RoundValues,
          home \in TeamValues, away \in TeamValues :
          /\ fx_call' = [op |-> "is_match_played",
                         args |-> <<season, round_num, home, away>>]
          /\ fx_return' = is_match_played(season, round_num, home, away, utcnow)
    /\ pc' = "fixtures_returned"
    /\ UNCHANGED <<servicesVars, apiVars, utcnow>>

GetUpcomingMatches ==
    /\ pc = "fixtures"
    /\ \E season \in SeasonValues, round_num \in RoundValues :
          /\ fx_call' = [op |-> "get_upcoming_matches",
                         args |-> <<season, round_num>>]
          /\ fx_return' = get_upcoming_matches(season, round_num, utcnow)
    /\ pc' = "fixtures_returned"
    /\ UNCHANGED <<servicesVars, apiVars, utcnow>>

GetCurrentRound ==
    /\ pc = "fixtures"
    /\ \E season \in SeasonValues :
          /\ fx_call' = [op |-> "get_current_round", args |-> <<season>>]
          /\ fx_return' = get_current_round(season, utcnow)
    /\ pc' = "fixtures_returned"
    /\ UNCHANGED <<servicesVars, apiVars, utcnow>>

\* The caller takes the answer.
FixturesReturn ==
    /\ pc = "fixtures_returned"
    /\ fx_call' = None
    /\ fx_return' = None
    /\ pc' = "fixtures"
    /\ UNCHANGED <<servicesVars, apiVars, utcnow>>

ServicesIdle ==
    /\ OptimiserIdle
    /\ ScoringIdle
    /\ PredictorIdle
    /\ ValidationIdle

InitFixtures ==
    /\ ServicesIdle
    /\ ApiIdle
    /\ utcnow = 0
    /\ fx_call = None
    /\ fx_return = None
    /\ pc = "fixtures"

NextFixtures ==
    Tick \/ IsMatchPlayed \/ GetUpcomingMatches \/ GetCurrentRound
        \/ FixturesReturn

SpecFixtures == InitFixtures /\ [][NextFixtures]_vars

-----------------------------------------------------------------------------
(* The scrape jobs (api/scrape.py) *)

(***************************************************************************)
(* A job is an entry of _jobs and an asyncio task in _tasks.  All the      *)
(* endpoints and all the tasks run on one event loop, so each runs alone   *)
(* from one await to the next.  A task is followed from await to await:    *)
(* "at" names the await its coroutine is suspended at, and resuming it     *)
(* with an outcome (the awaited call returns a value, raises, or has       *)
(* CancelledError thrown in) runs the coroutine up to its next await or    *)
(* to its end.  The first step of a task, up to its first await, runs      *)
(* before anyone has learnt the job id, so a task is created suspended at  *)
(* its first await.                                                        *)
(***************************************************************************)

\* The number of jobs created.
MaxJobs == 2

\* The number of market pages one scrape loads at most.
MaxAwaits == 2

\* The values uuid.uuid4() draws: their order says nothing about when a
\* value was drawn.  A value not drawn yet is the id of no job.
Uuids == 1..MaxJobs

Job(job_id, job_status) == [job_id |-> job_id, status |-> job_status]

JobIds == {_jobs[i].job_id : i \in DOMAIN _jobs}

JobOf(job_id) == _jobs[CHOOSE i \in DOMAIN _jobs : _jobs[i].job_id = job_id]

_create_job(job_id) == Append(_jobs, Job(job_id, "in_progress"))

\* job["status"] = job_status, on the entry of job_id.
SetStatus(job_id, job_status) ==
    [i \in DOMAIN _jobs |->
        IF _jobs[i].job_id = job_id THEN Job(job_id, job_status)
        ELSE _jobs[i]]

\* asyncio.create_task(fn(job_id, ...)), run up to the first await of fn.
create_task(fn, has_handicaps, first) ==
    [fn |-> fn, has_handicaps |-> has_handicaps, at |-> first, left |-> 0,
     total_ok |-> FALSE, must_cancel |-> FALSE, cancelling |-> FALSE]

\* The coroutine goes on to the await "at", having set the job's status.
To(t, job_status, at) == [task |-> [t EXCEPT !.at = at], status |-> job_status]

\* The coroutine ends, having set the job's status.
End(t, job_status) == To(t, job_status, "done")

\* What the call awaited at "at" may do, short of CancelledError.
Outcomes(fn, at) ==
    CASE at = "discover" ->
            IF fn = "_run_scrape_all"
            THEN {"no_matches", "all_played", "matches", "raises"}
            ELSE {"no_matches", "matches", "raises"}
      [] at = "handicaps" ->
            IF fn = "_run_scrape_all"
            THEN {"returns", "nothing_saved", "raises"}
            ELSE {"returns", "raises"}
      [] at \in {"scrape", "fantasy"} ->
            {"returns", "no_players", "session_expired", "raises"}
      [] at = "page" -> {"returns", "session_expired", "no_table", "raises"}
      [] OTHER -> {"returns", "raises"}

\* The number of market pages the matches found call for.
MarketPages(t) ==
    IF t.fn = "_run_scraper" /\ t.has_handicaps THEN 0..MaxAwaits
    ELSE 1..MaxAwaits

\* _run_scraper resumed at t.at with outcome o; s is the job's status and n
\* the number of market pages of the matches discovered.
_run_scraper(t, s, o, n) ==
    IF o = "cancelled" THEN End(t, "cancelled")
    ELSE CASE t.at = "discover" ->
                (CASE o = "raises" -> End(t, "failed")
                   [] o = "no_matches" -> End(t, "completed")
                   [] o = "matches" ->
                        To([t EXCEPT !.left = n], s,
                           IF t.has_handicaps THEN "handicaps" ELSE "markets"))
           [] t.at = "handicaps" ->
                 IF t.left = 0 THEN End(t, "completed")
                 ELSE To(t, s, "markets")
           [] t.at = "markets" ->
                 IF t.left = 1 THEN End([t EXCEPT !.left = 0], "completed")
                 ELSE To([t EXCEPT !.left = @ - 1], s, "markets")

\* The variant of _run_fantasy_import without "except asyncio.CancelledError".
_run_fantasy_import_Uncaught(t, s, o, n) ==
    IF t.at = "handler_record" THEN End(t, s)
    ELSE IF o = "cancelled" THEN End(t, s)
    ELSE IF o = "raises" THEN To(t, "failed", "handler_record")
    ELSE CASE t.at = "scrape" ->
                (CASE o = "returns" -> To(t, s, "import")
                   [] o = "no_players" -> To(t, "failed", "record")
                   [] o = "session_expired" ->
                        To(t, "session_expired", "handler_record"))
           [] t.at = "import" -> To(t, "completed", "record")
           [] t.at = "record" -> End(t, s)

\* _run_fantasy_import resumed at t.at with outcome o.  At "handler_record"
\* the coroutine is inside an except clause, which no other except clause
\* of the same try covers.
_run_fantasy_import(t, s, o, n) ==
    IF t.at = "handler_record" THEN End(t, s)
    ELSE IF o = "cancelled" THEN End(t, "cancelled")
    ELSE IF o = "raises" THEN To(t, "failed", "handler_record")
    ELSE CASE t.at = "scrape" ->
                (CASE o = "returns" -> To(t, s, "import")
                   [] o = "no_players" -> To(t, "failed", "record")
                   [] o = "session_expired" ->
                        To(t, "session_expired", "handler_record"))
           [] t.at = "import" -> To(t, "completed", "record")
           [] t.at = "record" -> End(t, s)

\* total_ok counts the steps that succeeded.
FinalStatus(t) == IF t.total_ok THEN "completed" ELSE "failed"

Ok(t) == [t EXCEPT !.total_ok = TRUE]

\* _run_scrape_all resumed at t.at with outcome o.  The except clauses of
\* the fantasy-prices try lie inside the outer try.
_run_scrape_all(t, s, o, n) ==
    IF o = "cancelled" THEN End(t, "cancelled")
    ELSE CASE t.at = "discover" ->
                (CASE o = "raises" -> End(t, "failed")
                   [] o = "no_matches" -> End(t, "completed")
                   [] o = "all_played" -> To(t, s, "fantasy")
                   [] o = "matches" -> To([t EXCEPT !.left = n], s, "handicaps"))
           [] t.at = "handicaps" ->
                 To(IF o = "returns" THEN Ok(t) ELSE t, s, "markets")
           [] t.at = "markets" ->
                 To([(IF o = "returns" THEN Ok(t) ELSE t)
                        EXCEPT !.left = @ - 1],
                    s, IF t.left = 1 THEN "fantasy" ELSE "markets")
           [] t.at = "fantasy" ->
                (CASE o = "returns" -> To(Ok(t), s, "record")
                   [] o = "no_players" -> To(t, s, "record")
                   [] o = "session_expired" ->
                        To(t, "session_expired", "session_record")
                   [] o = "raises" -> To(t, s, "error_record"))
           [] t.at = "record" ->
                 IF o = "raises" THEN To(t, s, "error_record")
                 ELSE End(t, FinalStatus(t))
           [] t.at = "session_record" ->
                 IF o = "raises" THEN End(t, "failed") ELSE End(t, s)
           [] t.at = "error_record" ->
                 IF o = "raises" THEN End(t, "failed")
                 ELSE End(t, FinalStatus(t))

\* _run_fantasy_stats resumed at t.at with outcome o.  The finally clause
\* awaits browser.close() and pw.stop() with a return, an exception or a
\* CancelledError pending.
_run_fantasy_stats(t, s, o, n) ==
    CASE t.at = "handler_record" -> End(t, s)
      [] t.at = "launch" ->
           (CASE o = "cancelled" -> End(t, "cancelled")
              [] o = "raises" -> To(t, "failed", "handler_record")
              [] o = "returns" -> To(t, s, "page"))
      [] t.at = "page" ->
           (CASE o = "cancelled" -> To(t, s, "finally_cancelled")
              [] o = "raises" -> To(t, s, "finally_raised")
              [] o = "returns" -> To(t, "completed", "record")
              [] o = "session_expired" -> To(t, "session_expired", "record")
              [] o = "no_table" -> To(t, "failed", "record"))
      [] t.at = "record" ->
           (CASE o = "cancelled" -> To(t, s, "finally_cancelled")
              [] o = "raises" -> To(t, s, "finally_raised")
              [] o = "returns" -> To(t, s, "finally"))
      [] t.at \in {"finally", "finally_raised", "finally_cancelled"} ->
           (CASE o = "cancelled" -> End(t, "cancelled")
              [] o = "raises" -> To(t, "failed", "handler_record")
              [] o = "returns" ->
                    CASE t.at = "finally" -> End(t, s)
                      [] t.at = "finally_raised" ->
                            To(t, "failed", "handler_record")
                      [] t.at = "finally_cancelled" -> End(t, "cancelled"))

\* One step of the coroutine of task t.
Resume(t, s, o, n) ==
    CASE t.fn = "_run_scraper" -> _run_scraper(t, s, o, n)
      [] t.fn = "_run_fantasy_import" -> _run_fantasy_import(t, s, o, n)
      [] t.fn = "_run_scrape_all" -> _run_scrape_all(t, s, o, n)
      [] t.fn = "_run_fantasy_stats" -> _run_fantasy_stats(t, s, o, n)

\* What get_active_jobs has in latest_finished after the entries i.. of _jobs.
RECURSIVE LatestFinishedFrom(_, _)
LatestFinishedFrom(i, latest_finished) ==
    IF i > Len(_jobs) THEN latest_finished
    ELSE LatestFinishedFrom(i + 1,
            IF _jobs[i].status = "in_progress" THEN latest_finished
            ELSE IF latest_finished = None
                    \/ _jobs[i].job_id > latest_finished.job_id
                 THEN _jobs[i]
                 ELSE latest_finished)

get_active_jobs ==
    [active |-> SelectSeq(_jobs, LAMBDA job : job.status = "in_progress"),
     latest_finished |-> LatestFinishedFrom(1, None)]

\* What kill_scrape_job answers.
kill_scrape_job(job_id) ==
    IF job_id \notin DOMAIN _tasks THEN "not_found"
    ELSE IF _tasks[job_id].at = "done" THEN "already_finished"
    ELSE "cancelling"

get_scrape_status(job_id) ==
    IF job_id \notin JobIds THEN [status |-> "not_found"]
    ELSE [status |-> JobOf(job_id).status]

MarketValues == {"handicaps", "totals", "try_scorer", "winner"}

\* The keys of MARKET_URL_MAP and of MARKET_TYPE_MAP.
MARKET_URL_MAP == {"handicaps", "totals", "try_scorer"}

\* An endpoint creates a job and its task, and answers with the job id.
StartJob(endpoint, fn, has_handicaps, first) ==
    /\ pc = "jobs"
    /\ Len(_jobs) < MaxJobs
    /\ \E job_id \in Uuids \ JobIds :
          /\ _jobs' = _create_job(job_id)
          /\ _tasks' = (job_id :> create_task(fn, has_handicaps, first))
                          @@ _tasks
          /\ job_return' = [op |-> endpoint, status |-> "in_progress",
                            job_id |-> job_id]
    /\ pc' = "jobs_returned"
    /\ UNCHANGED <<servicesVars, fixturesVars, missingVars, predictionsVars>>

\* An endpoint answers without creating a job.
NoJob(endpoint, answer) ==
    /\ pc = "jobs"
    /\ job_return' = [op |-> endpoint, status |-> answer, job_id |-> ""]
    /\ pc' = "jobs_returned"
    /\ UNCHANGED <<servicesVars, fixturesVars, missingVars, predictionsVars,
                   _jobs, _tasks>>

ScrapeAllMatchOdds ==
    StartJob("scrape_all_match_odds", "_run_scraper", TRUE, "discover")

ScrapeSingleMarket ==
    \E market \in MarketValues :
        IF market \notin MARKET_URL_MAP
        THEN NoJob("scrape_single_market", "error")
        ELSE StartJob("scrape_single_market", "_run_scraper",
                      market = "handicaps", "discover")

ScrapeMatchMarket ==
    \E market \in MarketValues :
        IF market \notin MARKET_URL_MAP
        THEN NoJob("scrape_match_market", "error")
        ELSE StartJob("scrape_match_market", "_run_scraper",
                      market = "handicaps", "discover")

\* The database has rows of the round or not, and all_missing_types is what
\* the rows lack.
ScrapeMissingMarkets ==
    \E rows \in BOOLEAN, all_missing_types \in SUBSET MARKET_URL_MAP :
        IF ~rows
        THEN StartJob("scrape_missing_markets", "_run_scraper", TRUE,
                      "discover")
        ELSE IF all_missing_types = {}
        THEN NoJob("scrape_missing_markets", "completed")
        ELSE StartJob("scrape_missing_markets", "_run_scraper",
                      "handicaps" \in all_missing_types, "discover")

ImportPrices ==
    StartJob("import_prices", "_run_fantasy_import", FALSE, "scrape")

ImportPricesWithLogin ==
    StartJob("import_prices_with_login", "_run_fantasy_import", FALSE,
             "scrape")

ScrapeAll == StartJob("scrape_all", "_run_scrape_all", TRUE, "discover")

ScrapeFantasyStatsEndpoint ==
    StartJob("scrape_fantasy_stats_endpoint", "_run_fantasy_stats", FALSE,
             "launch")

\* The event loop resumes the task of job_id: with CancelledError if
\* task.cancel() was called since its last step, else with what the awaited
\* call did.
TaskStep(job_id) ==
    /\ pc \in {"jobs", "jobs_returned"}
    /\ job_id \in DOMAIN _tasks
    /\ _tasks[job_id].at # "done"
    /\ LET t == _tasks[job_id] IN
          \E o \in (IF t.must_cancel THEN {"cancelled"}
                    ELSE Outcomes(t.fn, t.at)),
             n \in MarketPages(t) :
             LET r == Resume(t, JobOf(job_id).status, o, n) IN
                /\ _tasks' = [_tasks EXCEPT
                                ![job_id] = [r.task EXCEPT
                                                !.must_cancel = FALSE]]
                /\ _jobs' = SetStatus(job_id, r.status)
    /\ UNCHANGED <<servicesVars, fixturesVars, missingVars, predictionsVars,
                   job_return, pc>>

GetActiveJobs ==
    /\ pc = "jobs"
    /\ job_return' = [op |-> "get_active_jobs"] @@ get_active_jobs
    /\ pc' = "jobs_returned"
    /\ UNCHANGED <<servicesVars, fixturesVars, missingVars, predictionsVars,
                   _jobs, _tasks>>

KillScrapeJob ==
    /\ pc = "jobs"
    /\ \E job_id \in Uuids :
          /\ job_return' = [op |-> "kill_scrape_job", job_id |-> job_id,
                            status |-> kill_scrape_job(job_id)]
          /\ _tasks' = IF kill_scrape_job(job_id) = "cancelling"
                       THEN [_tasks EXCEPT ![job_id].must_cancel = TRUE,
                                           ![job_id].cancelling = TRUE]
                       ELSE _tasks
    /\ pc' = "jobs_returned"
    /\ UNCHANGED <<servicesVars, fixturesVars, missingVars, predictionsVars,
                   _jobs>>

GetScrapeStatus ==
    /\ pc = "jobs"
    /\ \E job_id \in Uuids :
          job_return' = [op |-> "get_scrape_status", job_id |-> job_id]
                           @@ get_scrape_status(job_id)
    /\ pc' = "jobs_returned"
    /\ UNCHANGED <<servicesVars, fixturesVars, missingVars, predictionsVars,
                   _jobs, _tasks>>

\* The client takes the answer.
JobsReturn ==
    /\ pc = "jobs_returned"
    /\ job_return' = None
    /\ pc' = "jobs"
    /\ UNCHANGED <<servicesVars, fixturesVars, missingVars, predictionsVars,
                   _jobs, _tasks>>

InitJobs ==
    /\ ServicesIdle
    /\ FixturesIdle
    /\ ApiIdle
    /\ pc = "jobs"

NextJobs ==
    \/ ScrapeAllMatchOdds
    \/ ScrapeSingleMarket
    \/ ScrapeMatchMarket
    \/ ScrapeMissingMarkets
    \/ ImportPrices
    \/ ImportPricesWithLogin
    \/ ScrapeAll
    \/ ScrapeFantasyStatsEndpoint
    \/ \E job_id \in Uuids : TaskStep(job_id)
    \/ GetActiveJobs
    \/ KillScrapeJob
    \/ GetScrapeStatus
    \/ JobsReturn

SpecJobs == InitJobs /\ [][NextJobs]_vars

\* The number of jobs followed under fairness: a task reads and writes no
\* entry of _jobs but its own.
MaxFairJobs == 1

\* Every task keeps being scheduled, and every call it awaits returns or
\* raises in the end.
NextJobsFair ==
    \/ ScrapeAllMatchOdds /\ Len(_jobs') <= MaxFairJobs
    \/ ScrapeSingleMarket /\ Len(_jobs') <= MaxFairJobs
    \/ ScrapeMatchMarket /\ Len(_jobs') <= MaxFairJobs
    \/ ScrapeMissingMarkets /\ Len(_jobs') <= MaxFairJobs
    \/ ImportPrices /\ Len(_jobs') <= MaxFairJobs
    \/ ImportPricesWithLogin /\ Len(_jobs') <= MaxFairJobs
    \/ ScrapeAll /\ Len(_jobs') <= MaxFairJobs
    \/ ScrapeFantasyStatsEndpoint /\ Len(_jobs') <= MaxFairJobs
    \/ \E job_id \in Uuids : TaskStep(job_id)
    \/ GetActiveJobs
    \/ KillScrapeJob
    \/ GetScrapeStatus
    \/ JobsReturn

SpecJobsFair ==
    /\ InitJobs
    /\ [][NextJobsFair]_vars
    /\ \A job_id \in Uuids : WF_vars(TaskStep(job_id))

-----------------------------------------------------------------------------
(* The "missing markets" scrape: what it saves (api/scrape.py) *)

(***************************************************************************)
(* The section above follows the status of a job; this one follows the     *)
(* odds one run of scrape_missing_markets and its _run_scraper task saves. *)
(* match_odds[key] is what the database holds for the match "home|away"    *)
(* in the round: whether a MatchOdds row exists, its handicap_line and     *)
(* over_under_line, and the try scorer odds of the two countries; None is  *)
(* no value, Line("stored") a value stored before the run, and             *)
(* Line("scraped") a value the run saved.                                  *)
(***************************************************************************)

MatchKeys == {"France|Ireland", "Italy|Scotland"}

Line(origin) == [line |-> origin]

\* The per_match_missing map scrape_missing_markets builds from the rows.
PerMatchMissing(db) ==
    LET missing_markets(key) ==
            {market \in MARKET_URL_MAP : db[key][market] = None}
        keys == {key \in MatchKeys : db[key].row /\ missing_markets(key) # {}}
    IN  [key \in keys |-> missing_markets(key)]

\* scrape_missing_markets up to its answer: without rows it starts a flat
\* scrape of the three markets, with nothing missing it starts no job.
ScrapeMissingMarketsArguments ==
    /\ pc = "missing"
    /\ IF \A key \in MatchKeys : ~match_odds[key].row
       THEN per_match_missing' = None /\ pc' = "missing_in_progress"
       ELSE /\ per_match_missing' = PerMatchMissing(match_odds)
            /\ pc' = IF PerMatchMissing(match_odds) = <<>>
                     THEN "missing_completed" ELSE "missing_in_progress"
    /\ UNCHANGED <<servicesVars, fixturesVars, jobsVars, predictionsVars,
                   match_odds, scraped>>

\* The (match, market) pairs a run of _run_scraper sets out to save, given
\* the matches found on the site, those the handicaps overview page lists,
\* and those already played.
Scrapes(missing, matches_found, overview_matches, played) ==
    LET matches ==
            {key \in matches_found \ played :
                missing # None => key \in DOMAIN missing}
        has_handicaps ==
            \/ missing = None
            \/ \E key \in DOMAIN missing : "handicaps" \in missing[key]
        match_markets(key) ==
            (IF missing # None /\ key \in DOMAIN missing THEN missing[key]
             ELSE MARKET_URL_MAP) \ {"handicaps"}
    IN  IF matches = {} THEN {}
        ELSE {<<key, "handicaps">> :
                 key \in IF has_handicaps THEN overview_matches \ played
                         ELSE {}}
             \cup {<<key, market>> \in matches \X MARKET_URL_MAP :
                      market \in match_markets(key)}

\* The rows after save_handicap_odds, save_match_totals_odds and
\* save_anytime_try_scorer_odds have saved the pairs.
Save(db, saved) ==
    [key \in MatchKeys |->
        [row |-> db[key].row \/ <<key, "handicaps">> \in saved
                             \/ <<key, "totals">> \in saved,
         handicaps |-> IF <<key, "handicaps">> \in saved
                       THEN Line("scraped") ELSE db[key].handicaps,
         totals |-> IF <<key, "totals">> \in saved
                    THEN Line("scraped") ELSE db[key].totals,
         try_scorer |-> IF <<key, "try_scorer">> \in saved
                        THEN Line("scraped") ELSE db[key].try_scorer]]

\* The task runs to its end; a scrape or a save that raises, or a line with
\* too few bookmakers, saves nothing for its pair.
RunScraper ==
    /\ pc = "missing_in_progress"
    /\ \E matches_found \in SUBSET MatchKeys,
          overview_matches \in SUBSET MatchKeys,
          played \in SUBSET MatchKeys :
          \E saved \in SUBSET Scrapes(per_match_missing, matches_found,
                                      overview_matches, played) :
             /\ scraped' = saved
             /\ match_odds' = Save(match_odds, saved)
    /\ pc' = "missing_completed"
    /\ UNCHANGED <<servicesVars, fixturesVars, jobsVars, predictionsVars,
                   per_match_missing>>

InitMissing ==
    /\ ServicesIdle
    /\ FixturesIdle
    /\ JobsIdle
    /\ PredictionsIdle
    /\ match_odds \in [MatchKeys ->
          [row : BOOLEAN, handicaps : {None, Line("stored")},
           totals : {None, Line("stored")},
           try_scorer : {None, Line("stored")}]]
    /\ \A key \in MatchKeys :
          ~match_odds[key].row =>
              match_odds[key].handicaps = None /\ match_odds[key].totals = None
    /\ per_match_missing = None
    /\ scraped = {}
    /\ pc = "missing"

NextMissing == ScrapeMissingMarketsArguments \/ RunScraper

SpecMissing == InitMissing /\ [][NextMissing]_vars

-----------------------------------------------------------------------------
(* The stored predictions (api/predictions.py, api/optimiser.py) *)

(***************************************************************************)
(* predictions is the table of Prediction rows in the order they were      *)
(* inserted, which is the order a relationship without order_by loads      *)
(* them in.  What predictor.predict returns for a player depends on the    *)
(* stats and odds stored when generate_predictions runs; here it is any    *)
(* of PredictedPointsValues.                                               *)
(***************************************************************************)

\* The number of Player rows.
MaxPlayers == 2

\* The number of Prediction rows.
MaxRows == 4

PredictedPointsValues == {10, 12}

Prediction(player_id, season, round, predicted_points) ==
    [player_id |-> player_id, season |-> season, round |-> round,
     predicted_points |-> predicted_points]

\* generate_predictions(round, season): one more row for every player that
\* has a team selection for the round, then one commit.
GeneratePredictions ==
    /\ pc = "predictions"
    /\ \E round \in 1..2, season \in SeasonValues,
          selected \in SUBSET (1..MaxPlayers) :
          /\ Len(predictions) + Cardinality(selected) <= MaxRows
          /\ \E predicted \in [1..MaxPlayers -> PredictedPointsValues] :
                predictions' = predictions \o
                    SelectSeq([player_id \in 1..MaxPlayers |->
                                  Prediction(player_id, season, round,
                                             predicted[player_id])],
                              LAMBDA row : row.player_id \in selected)
    /\ UNCHANGED <<servicesVars, fixturesVars, jobsVars, missingVars,
                   optimiser_players, pc>>

\* The predicted points optimise(request) puts in optimiser_players: for
\* each player with a price for the round, the first of its predictions for
\* season 2025 and the round.
OptimiserPlayers(round, priced) ==
    LET matching(player_id) ==
            SelectSeq(predictions,
                      LAMBDA p : p.player_id = player_id /\ p.season = 2025
                                    /\ p.round = round)
    IN  [player_id \in {id \in priced : matching(id) # <<>>} |->
            matching(player_id)[1].predicted_points]

\* optimise(request) up to its call of optimise_team.
Optimise ==
    /\ pc = "predictions"
    /\ \E round \in 1..2, priced \in SUBSET (1..MaxPlayers) :
          optimiser_players' =
              [round |-> round,
               predicted_points |-> OptimiserPlayers(round, priced)]
    /\ pc' = "optimise_team"
    /\ UNCHANGED <<servicesVars, fixturesVars, jobsVars, missingVars,
                   predictions>>

\* optimise_team returns and the endpoint answers.
OptimiseReturn ==
    /\ pc = "optimise_team"
    /\ optimiser_players' = None
    /\ pc' = "predictions"
    /\ UNCHANGED <<servicesVars, fixturesVars, jobsVars, missingVars,
                   predictions>>

InitPredictions ==
    /\ ServicesIdle
    /\ FixturesIdle
    /\ ApiIdle
    /\ pc = "predictions"

NextPredictions == GeneratePredictions \/ Optimise \/ OptimiseReturn

SpecPredictions == InitPredictions /\ [][NextPredictions]_vars

-----------------------------------------------------------------------------
(* The returned team, as a caller reads it *)

Done == pc = "done"

Opt(v) == IF v = None THEN <<>> ELSE <<v>>

\* The players of the starting XV view, slot by slot.
XVPlayers(xv) ==
    xv.props \o Opt(xv.hooker) \o xv.second_row \o xv.back_row \o
    Opt(xv.scrum_half) \o Opt(xv.out_half) \o xv.centres \o xv.back_3

\* Starting XV and bench.
Squad(team) == XVPlayers(team.starting_xv) \o team.bench

NoRepeat(list) == \A i, j \in 1..Len(list) : list[i].id = list[j].id => i = j

\* The candidate pool of the call, from its arguments.
Pool == Ids(AvailablePlayers)

LockedInPool == {id \in Pool : InList(id, locked_players)}

CountryCount(team, country) ==
    Len(SelectSeq(Squad(team), LAMBDA p : p.country = country))

-----------------------------------------------------------------------------
(* C1 *)

\* C1 as stated: whatever the arguments, the returned team's total_cost is
\* at most the budget passed in.
C1_CostWithinAnyBudget == Done => result.total_cost <= budget

\* C1, amended: for a budget of 0 or more the returned team's total_cost is
\* at most the budget; for a negative budget the all-empty team is returned,
\* whose total_cost is 0.
C1_CostWithinBudget ==
    Done => /\ budget >= 0 => result.total_cost <= budget
            /\ budget < 0  => result.total_cost = 0

\* A team was selected that spends the whole budget, with a candidate left out.
C1_Witness ==
    /\ Done /\ status = "Optimal"
    /\ budget > 0 /\ result.total_cost = budget
    /\ Len(Squad(result)) < Len(available_players)

-----------------------------------------------------------------------------
(* C2 *)

\* C2 as stated: every locked id of the candidate pool is in the starting XV
\* or on the bench of the returned team, whatever the other arguments.
C2_LockedAlwaysSelected ==
    Done => \A id \in LockedInPool : id \in Ids(Squad(result))

\* C2, amended: whenever some selection satisfies all constraints (the solve
\* is optimal), every locked id of the candidate pool is in the starting XV
\* or on the bench of the returned team; otherwise the all-empty team is
\* returned, which holds no locked player.
C2_LockedSelectedWhenOptimal ==
    Done => /\ status = "Optimal" =>
                \A id \in LockedInPool : id \in Ids(Squad(result))
            /\ status # "Optimal" => Squad(result) = <<>>

\* Two locked candidates were both selected.
C2_Witness ==
    /\ Done /\ status = "Optimal"
    /\ Cardinality(LockedInPool) = 2
    /\ LockedInPool \subseteq Ids(Squad(result))

-----------------------------------------------------------------------------
(* C3 *)

\* C3 as stated: in every returned team each country has at most
\* max_per_country players in starting XV plus bench.
C3_CountryCapAlways ==
    Done => \A country \in Country :
                CountryCount(result, country) <= max_per_country

\* C3, amended: for max_per_country of 0 or more, each country has at most
\* max_per_country players in starting XV plus bench; for a negative
\* max_per_country the all-empty team is returned, with no player of any
\* country.
C3_CountryCap ==
    Done => \A country \in Country :
                /\ max_per_country >= 0 =>
                       CountryCount(result, country) <= max_per_country
                /\ max_per_country < 0 => CountryCount(result, country) = 0

\* A country reached the cap while more of its players were candidates.
C3_Witness ==
    /\ Done /\ status = "Optimal"
    /\ \E country \in Country :
          /\ CountryCount(result, country) = max_per_country
          /\ Len(SelectSeq(available_players, LAMBDA p : p.country = country))
                > max_per_country

-----------------------------------------------------------------------------
(* C4 *)

C4_Cap(position) ==
    CASE position = "prop"       -> 2
      [] position = "hooker"     -> 1
      [] position = "second_row" -> 2
      [] position = "back_row"   -> 3
      [] position = "scrum_half" -> 1
      [] position = "out_half"   -> 1
      [] position = "centre"     -> 2
      [] position = "back_3"     -> 3

\* C4: in every returned team the starters per position are within the
\* fixed caps, and the starting_xv view shows every starter the solver
\* selected, each once.
C4_PositionCaps ==
    Done =>
        /\ \A position \in PositionSet :
              Shown(result.starting_xv, position) <= C4_Cap(position)
        /\ status = "Optimal" =>
              /\ \A position \in PositionSet :
                    Cardinality({id \in sol.x : \E i \in 1..Len(available_players) :
                        /\ available_players[i].id = id
                        /\ available_players[i].fantasy_position = position})
                      <= C4_Cap(position)
              /\ Ids(XVPlayers(result.starting_xv)) = sol.x
              /\ Len(XVPlayers(result.starting_xv)) = Cardinality(sol.x)

\* Two hookers were candidates and both were selected: one starts and is
\* shown in the single hooker slot, the other sits on the bench.
C4_Witness ==
    /\ Done /\ status = "Optimal"
    /\ result.starting_xv.hooker # None
    /\ \E i \in 1..Len(result.bench) : result.bench[i].fantasy_position = "hooker"

-----------------------------------------------------------------------------
(* C5 *)

C5_Shown(team) == Squad(team) \o Opt(team.captain) \o Opt(team.super_sub)

\* C5: no excluded id and no unavailable player is in the starting XV, on
\* the bench, captain or super-sub of the returned team, locked or not.
C5_ExcludedNeverSelected ==
    Done => \A i \in 1..Len(C5_Shown(result)) :
                /\ C5_Shown(result)[i].is_available
                /\ ~InList(C5_Shown(result)[i].id, excluded_players)

\* A team was selected from a roster holding a player who is both locked
\* and excluded and a locked player who is unavailable.
C5_Witness ==
    /\ Done /\ status = "Optimal"
    /\ \E i \in 1..Len(players) :
          /\ InList(players[i].id, locked_players)
          /\ InList(players[i].id, excluded_players)
    /\ \E i \in 1..Len(players) :
          /\ InList(players[i].id, locked_players)
          /\ ~players[i].is_available

-----------------------------------------------------------------------------
(* C6 *)

\* C6: the super_sub of a returned team, when there is one, is one of its
\* bench players, and the captain, when there is one, is one of its
\* starting-XV or bench players.
C6_RolesAmongSelected ==
    Done => /\ result.super_sub # None => result.super_sub \in Range(result.bench)
            /\ result.captain # None => result.captain \in Range(Squad(result))

\* A team with a captain in the starting XV and a super-sub.
C6_Witness ==
    /\ Done
    /\ result.super_sub # None
    /\ result.captain # None
    /\ result.captain \in Range(XVPlayers(result.starting_xv))

-----------------------------------------------------------------------------
(* C7 *)

\* C7: no player is both in the starting XV and on the bench of a returned
\* team, and none is twice in either.
C7_OneSlotEach ==
    Done => /\ Ids(XVPlayers(result.starting_xv)) \cap Ids(result.bench) = {}
            /\ NoRepeat(XVPlayers(result.starting_xv))
            /\ NoRepeat(result.bench)

\* A team with two starters and two bench players, with budget to spare.
C7_Witness ==
    /\ Done
    /\ Len(XVPlayers(result.starting_xv)) >= 2
    /\ Len(result.bench) >= 2
    /\ result.remaining_budget > 0

-----------------------------------------------------------------------------
(* C8 *)

\* C8: called with include_bench = False, the returned team has an empty
\* bench and no super_sub.
C8_NoBench ==
    (Done /\ ~include_bench) => result.bench = <<>> /\ result.super_sub = None

\* Without a bench a team was selected that leaves out a candidate it
\* could afford.
C8_Witness ==
    /\ Done /\ ~include_bench /\ status = "Optimal"
    /\ \E i \in 1..Len(available_players) :
          /\ available_players[i].id \notin Ids(Squad(result))
          /\ available_players[i].price <= result.remaining_budget

-----------------------------------------------------------------------------
(* C9 *)

C9_AllEmpty(team) ==
    /\ XVPlayers(team.starting_xv) = <<>>
    /\ team.starting_xv.hooker = None
    /\ team.starting_xv.scrum_half = None
    /\ team.starting_xv.out_half = None
    /\ team.bench = <<>>
    /\ team.captain = None
    /\ team.super_sub = None
    /\ team.total_cost = 0
    /\ team.total_predicted_points = 0
    /\ team.remaining_budget = budget
    /\ Range(team.empty_slots) = PositionSet
    /\ Len(team.empty_slots) = 8

\* C9: when the candidate pool is empty or no selection satisfies all
\* constraints, the call returns the all-empty team: nothing selected, no
\* captain, no super-sub, zero totals, the whole budget remaining and all
\* eight positions in empty_slots.
C9_FailSoft ==
    (Done /\ (AvailablePlayers = <<>> \/ Feasible = {})) => C9_AllEmpty(result)

\* The all-empty team came back because a locked candidate costs more than
\* the budget, which other candidates would fit.
C9_Witness ==
    /\ Done /\ status = "Infeasible"
    /\ budget > 0 /\ max_per_country > 0
    /\ \E i \in 1..Len(available_players) :
          /\ InList(available_players[i].id, locked_players)
          /\ available_players[i].price > budget
    /\ \E i \in 1..Len(available_players) : available_players[i].price <= budget

-----------------------------------------------------------------------------
(* C10 *)

\* The selection a team shows.
C10_Selection(team) ==
    [x |-> Ids(XVPlayers(team.starting_xv)),
     b |-> Ids(team.bench),
     c |-> Ids(Opt(team.captain)),
     s |-> Ids(Opt(team.super_sub))]

\* points for starters + 0.5 x bench + captain + 2.5 x super-sub, in half points.
C10_Value(a) ==
    SumSeq([i \in 1..Len(available_players) |->
        LET p == available_players[i] IN
            p.predicted_points *
                (2 * Val(a.x, p.id) + Val(a.b, p.id) + 2 * Val(a.c, p.id) + 5 * Val(a.s, p.id))])

\* C10: whenever some selection satisfies all constraints, the returned
\* team is such a selection and its total_predicted_points is at least the
\* objective value of every selection that satisfies them.
C10_Optimal ==
    (Done /\ Feasible # {}) =>
        /\ Satisfies(C10_Selection(result))
        /\ \A a \in Feasible : result.total_predicted_points >= C10_Value(a)

\* A team came back while another selection satisfying the constraints
\* scores less, and more than nothing.
C10_Witness ==
    /\ Done /\ status = "Optimal"
    /\ \E a \in Feasible :
          /\ C10_Value(a) < result.total_predicted_points
          /\ C10_Value(a) > 0

-----------------------------------------------------------------------------
(* C11 *)

C11_Prices(list) == SumSeq([i \in 1..Len(list) |-> list[i].price])

C11_Points(list) == SumSeq([i \in 1..Len(list) |-> list[i].predicted_points])

\* C11: in every returned team total_cost is the sum of the prices of the
\* starting and bench players, total_predicted_points is starters' points
\* + 0.5 x bench points + captain's points + 2.5 x super-sub's points (here
\* in half points), and remaining_budget is budget minus total_cost.
C11_Totals ==
    Done =>
        /\ result.total_cost = C11_Prices(Squad(result))
        /\ result.total_predicted_points =
                2 * C11_Points(XVPlayers(result.starting_xv))
              +     C11_Points(result.bench)
              + 2 * C11_Points(Opt(result.captain))
              + 5 * C11_Points(Opt(result.super_sub))
        /\ result.remaining_budget = budget - result.total_cost

\* A team with starters, a paid bench, a captain and a super-sub.
C11_Witness ==
    /\ Done
    /\ XVPlayers(result.starting_xv) # <<>>
    /\ C11_Prices(result.bench) > 0
    /\ result.captain # None
    /\ result.super_sub # None
    /\ result.remaining_budget > 0

-----------------------------------------------------------------------------
(* C12 *)

C12_Except(list, who) == SelectSeq(list, LAMBDA p : p.id # who.id)

\* What the players other than the captain add to the total, in half points.
C12_Others(team) ==
      2 * C11_Points(C12_Except(XVPlayers(team.starting_xv), team.captain))
    +     C11_Points(C12_Except(team.bench, team.captain))
    + 5 * C11_Points(C12_Except(Opt(team.super_sub), team.captain))

\* C12: in every returned team that has a captain, the captain's own
\* contribution to total_predicted_points is 2 x their predicted points
\* (4 half points per point), wherever the captain is placed.
C12_CaptainCountedTwice ==
    (Done /\ result.captain # None) =>
        result.total_predicted_points - C12_Others(result)
            = 4 * result.captain.predicted_points

-----------------------------------------------------------------------------
(* C13 *)

C13_Zeros(team) ==
    /\ team.total_cost = 0
    /\ team.total_predicted_points = 0
    /\ Range(team.empty_slots) = PositionSet

C13_Failed == AvailablePlayers = <<>> \/ status # "Optimal"

\* C13 as stated: the returned team has total_cost 0, total_predicted_points
\* 0 and all eight positions in empty_slots if and only if the candidate
\* pool was empty or the solve was not optimal.
C13_ZerosIffFailed == Done => (C13_Zeros(result) <=> C13_Failed)

\* C13, amended: a failed call returns total_cost 0, total_predicted_points
\* 0 and all eight positions in empty_slots; a successful solve returns
\* such a team only when a candidate has price 0, so with every candidate
\* priced above 0 the three values tell failure from success.
C13_ZerosTellFailure ==
    Done => /\ C13_Failed => C13_Zeros(result)
            /\ (C13_Zeros(result) /\ ~C13_Failed) =>
                    \E i \in 1..Len(available_players) :
                        available_players[i].price = 0

\* A successful solve with nobody starting, so all eight positions are in
\* empty_slots, told from a failure by its cost alone.
C13_Witness ==
    /\ Done /\ status = "Optimal"
    /\ Range(result.empty_slots) = PositionSet
    /\ result.total_cost > 0
    /\ \A i \in 1..Len(available_players) : available_players[i].price > 0

-----------------------------------------------------------------------------
(* C14 *)

C14_ShownAt(team, position) ==
    Len(SelectSeq(XVPlayers(team.starting_xv),
                  LAMBDA p : p.fantasy_position = position))

\* C14: in every returned team a position is in empty_slots if and only if
\* fewer starters are shown for it than its cap.
C14_EmptySlots ==
    Done => \A position \in PositionSet :
                (position \in Range(result.empty_slots))
                    <=> (C14_ShownAt(result, position) < C4_Cap(position))

\* A team with one prop, so that the prop slot is listed, and a hooker, so
\* that the hooker slot is not.
C14_Witness ==
    /\ Done
    /\ C14_ShownAt(result, "prop") = 1
    /\ "prop" \in Range(result.empty_slots)
    /\ C14_ShownAt(result, "hooker") = 1
    /\ "hooker" \notin Range(result.empty_slots)

-----------------------------------------------------------------------------
(* C15 *)

\* The locked ids that are not in the candidate pool.
C15_Ignored == {id \in Range(locked_players) : id \notin VarIds}

C15_Without(id) == SelectSeq(locked_players, LAMBDA l : l # id)

\* The locked rows of the call made with the list `locked`.
C15_LockedRows(a, locked) ==
    \A i \in 1..Len(locked) :
        locked[i] \in VarIds => Val(a.x, locked[i]) + Val(a.b, locked[i]) >= 1

C15_OtherRows(a) ==
    /\ OneSlot(a) /\ BenchLimit(a) /\ PositionLimits(a)
    /\ CountryLimit(a) /\ BudgetConstraint(a)

\* The selections that satisfy the program of the call made with `locked`.
C15_FeasibleWith(locked) ==
    UNION { {a \in [x : {q.x}, b : {q.b}, c : AtMostOne(VarIds), s : AtMostOne(VarIds)] :
                SatisfiesRoles(a)} :
            q \in {r \in [x : SUBSET VarIds, b : SUBSET VarIds] :
                      C15_OtherRows(r) /\ C15_LockedRows(r, locked)} }

\* C15: a locked id that is not in the candidate pool is ignored: what the
\* call returns is what the same call without that id returns: a solver's
\* optimum of that call's program, or the all-empty team when that call's
\* pool is empty or its program has no solution.
C15_IgnoredLock ==
    Done => \A id \in C15_Ignored :
        LET F == C15_FeasibleWith(C15_Without(id)) IN
            IF available_players = <<>> \/ F = {}
               THEN C9_AllEmpty(result)
               ELSE /\ status = "Optimal"
                    /\ C10_Selection(result) \in Optimal(F)

\* A team was selected although the locked list names an id that is not in
\* the roster, an unavailable player and an excluded player.
C15_Witness ==
    /\ Done /\ status = "Optimal"
    /\ \E id \in C15_Ignored : id \notin Ids(players)
    /\ \E i \in 1..Len(players) :
          InList(players[i].id, locked_players) /\ ~players[i].is_available
    /\ \E i \in 1..Len(players) :
          InList(players[i].id, locked_players)
            /\ InList(players[i].id, excluded_players)

-----------------------------------------------------------------------------
(* C16 *)

\* The stat line the argument stands for: a field that a dict leaves out
\* has its default.
C16_Count(field) ==
    IF field \in DOMAIN stats.value THEN stats.value[field] ELSE 0

C16_Flag(field) ==
    IF field \in DOMAIN stats.value THEN stats.value[field] ELSE FALSE

C16_Formula ==
      C16_Count("tries") * (IF C16_Flag("is_forward") THEN 15 ELSE 10)
    + C16_Count("try_assists") * 4
    + C16_Count("conversions") * 2
    + C16_Count("penalties_kicked") * 3
    + C16_Count("drop_goals") * 5
    + C16_Count("defenders_beaten") * 2
    + (CHOOSE q \in 0..C16_Count("metres_carried") :
          10 * q <= C16_Count("metres_carried")
            /\ C16_Count("metres_carried") < 10 * (q + 1))
    + C16_Count("offloads") * 2
    + C16_Count("fifty_22_kicks") * 7
    + (IF C16_Flag("is_forward") THEN C16_Count("scrums_won") ELSE 0)
    + C16_Count("tackles_made")
    + C16_Count("turnovers_won") * 5
    + C16_Count("lineout_steals") * 7
    + (IF C16_Flag("player_of_match") THEN 15 ELSE 0)
    - C16_Count("penalties_conceded")
    - C16_Count("yellow_cards") * 5
    - C16_Count("red_cards") * 8

C16_AllZero ==
    /\ \A field \in CountFields : C16_Count(field) = 0
    /\ \A field \in FlagFields : ~C16_Flag(field)

\* C16: for every stat line of non-negative counts calculate_fantasy_points
\* returns the weighted sum of the scoring table (tries 15 for a forward and
\* 10 for a back, scrums won for forwards only, metres carried divided by 10
\* and rounded down, 15 for player of the match, minus 1, 5 and 8 for
\* penalties conceded, yellow and red cards); an all-zero line gives 0; a
\* dict gives what the PlayerStats with the same fields gives.
C16_ScoringFormula ==
    pc = "scored" =>
        /\ fantasy_points = C16_Formula
        /\ C16_AllZero => fantasy_points = 0
        /\ stats.type = "dict" =>
              fantasy_points = calculate_fantasy_points(
                          [type |-> "PlayerStats",
                           value |-> [field \in StatFields |->
                                        IF field \in FlagFields
                                        THEN C16_Flag(field)
                                        ELSE C16_Count(field)]])

\* A back's line, handed over as a dict, with scrums won and metres that do
\* not divide by 10 has been scored.
C16_Witness ==
    /\ pc = "scored"
    /\ stats.type = "dict"
    /\ ~C16_Flag("is_forward")
    /\ C16_Count("scrums_won") > 0
    /\ C16_Count("metres_carried") % 10 # 0
    /\ fantasy_points > 0

-----------------------------------------------------------------------------
(* C17 *)

\* Nothing can be loaded: joblib is missing, the file is missing, or
\* loading the file raises.
C17_NoModel == ~JOBLIB_AVAILABLE \/ ~path_exists \/ load_raises

\* C17: when joblib is unavailable, the model file does not exist or loading
\* it raises, constructing the Predictor does not raise, its model is None,
\* and every predict call returns what _heuristic_predict returns for the
\* features passed.
C17_HeuristicFallback ==
    C17_NoModel =>
        /\ pc # "raised"
        /\ pc # "construct" => model = None
        /\ pc = "predicted" => prediction = heuristic_predict(features)

\* A prediction was made after loading the file raised.
C17_Witness ==
    /\ JOBLIB_AVAILABLE /\ path_exists /\ load_raises
    /\ pc = "predicted"
    /\ model = None
    /\ prediction.predicted_points > 0

-----------------------------------------------------------------------------
(* C18 *)

\* The features passed, with and without is_kicker.
C18_Kicker == [features EXCEPT !.is_kicker = TRUE]

C18_NonKicker == [features EXCEPT !.is_kicker = FALSE]

\* What is_kicker adds to the unrounded predicted points of the last call.
C18_Bonus ==
    IF features.is_kicker
    THEN unrounded_points - HeuristicBasePoints(C18_NonKicker)
    ELSE HeuristicBasePoints(C18_Kicker) - unrounded_points

C18_Heuristic == pc = "predicted" /\ model = None

\* C18 as stated: two feature sets that differ only in is_kicker have
\* unrounded predicted points that differ by exactly 3, whatever is_starting
\* and is_home are.
C18_FlatThree == C18_Heuristic => C18_Bonus = Pts(3)

\* C18, amended: the kicker bonus of 3 is added before the bench and away
\* factors, so two feature sets that differ only in is_kicker differ by 3
\* for a home starter, 3 x 0.95 = 2.85 for an away starter, 3 x 0.4 = 1.2 for
\* a home non-starter and 3 x 0.4 x 0.95 = 1.14 for an away non-starter.
C18_ScaledThree ==
    C18_Heuristic =>
        C18_Bonus = CASE features.is_starting /\ features.is_home   -> 30000000
                      [] features.is_starting /\ ~features.is_home  -> 28500000
                      [] ~features.is_starting /\ features.is_home  -> 12000000
                      [] ~features.is_starting /\ ~features.is_home -> 11400000

\* A kicker on the bench of the away side, with try odds, was predicted by
\* the heuristic.
C18_Witness ==
    /\ C18_Heuristic
    /\ features.is_kicker /\ ~features.is_starting /\ ~features.is_home
    /\ features.anytime_try_odds = Some(4)
    /\ C18_Bonus < Pts(3)

-----------------------------------------------------------------------------
(* C19 *)

C19_Age(dt) == HoursBetween(UtcNow, ensure_aware(dt))

\* All three markets present and scraped less than 24 hours ago, at least
\* 20 players with try scorer odds, nobody of unknown availability, odds for
\* everybody in the squad.
C19_CompleteFresh(match) ==
    /\ match.has_handicap /\ match.has_totals /\ match.has_try_scorer
    /\ \A key \in {"handicap_scraped_at", "totals_scraped_at",
                   "try_scorer_scraped_at"} :
          match[key] # None /\ C19_Age(match[key]) < 24
    /\ match.try_scorer_count >= 20
    /\ match.unknown_availability = 0
    /\ match.players_with_odds = match.squad_count

C19_Called == pc = "validated" /\ has_prices /\ match_data # <<>>

-----------------------------------------------------------------------------
(* C20 *)

C20_AllStale(match) ==
    \A key \in {"handicap_scraped_at", "totals_scraped_at",
                "try_scorer_scraped_at"} :
        match[key] # None /\ C19_Age(match[key]) > 24

C20_Count(label, type) ==
    Len(SelectSeq(warnings,
                  LAMBDA w : "match" \in DOMAIN w /\ w.match = label
                                /\ w.type = type))

\* C20: validate_round_data accepts a played_matches set of labels; no
\* warning that names a match is returned for a match in the set, and a
\* match outside the set keeps its warnings: three stale_odds warnings when
\* its three markets are all more than 24 hours old.
C20_PlayedMatchesSkipped ==
    (played_matches.passed /\ pc # "validate_round_data") =>
        /\ pc = "validated"
        /\ \A i \in 1..Len(warnings) :
              "match" \in DOMAIN warnings[i]
                  => warnings[i].match \notin played_matches.value
        /\ \A i \in 1..Len(match_data) :
              (MatchLabel(match_data[i]) \notin played_matches.value
                  /\ C20_AllStale(match_data[i]))
                => C20_Count(MatchLabel(match_data[i]), "stale_odds") = 3

-----------------------------------------------------------------------------
(* C21 *)

\* Hours from the timestamp to now; a naive timestamp is read as UTC.
C21_HoursOld(dt) ==
    UtcNow.hour
      - (IF dt.tzinfo = None THEN dt.hour ELSE dt.hour - dt.tzinfo.utcoffset)

C21_Stale(label, market) ==
    Len(SelectSeq(warnings,
                  LAMBDA w : w.type = "stale_odds" /\ w.match = label
                                /\ w.market = market))

C21_Expected(dt) == IF dt # None /\ C21_HoursOld(dt) > 24 THEN 1 ELSE 0

\* C21: for every match and each of handicaps, totals and try scorers
\* there is exactly one stale_odds warning naming the market when its
\* timestamp is present and more than 24 hours before now, and none when
\* the timestamp is absent or at most 24 hours old; a naive timestamp
\* counts as UTC.
C21_StalePerMarket ==
    pc = "validated" =>
        \A i \in 1..Len(match_data) :
            LET match == match_data[i]
                label == MatchLabel(match)
            IN  /\ C21_Stale(label, "handicaps")
                      = C21_Expected(match.handicap_scraped_at)
                /\ C21_Stale(label, "totals")
                      = C21_Expected(match.totals_scraped_at)
                /\ C21_Stale(label, "try scorers")
                      = C21_Expected(match.try_scorer_scraped_at)

\* One match with a naive try scorer timestamp two days old got its one
\* warning, and another with handicaps exactly 24 hours old got none.
C21_Witness ==
    /\ pc = "validated"
    /\ \E i \in 1..Len(match_data) :
          /\ match_data[i].try_scorer_scraped_at # None
          /\ match_data[i].try_scorer_scraped_at.tzinfo = None
          /\ C21_Stale(MatchLabel(match_data[i]), "try scorers") = 1
          /\ C21_Stale(MatchLabel(match_data[i]), "handicaps") = 0
    /\ \E j \in 1..Len(match_data) :
          /\ match_data[j].handicap_scraped_at # None
          /\ C21_HoursOld(match_data[j].handicap_scraped_at) = 24
          /\ C21_Stale(MatchLabel(match_data[j]), "handicaps") = 0

-----------------------------------------------------------------------------
(* C27 *)

\* C27: in every returned team that has both a captain and a super_sub,
\* the two are different players.
C27_CaptainIsNotSuperSub ==
    (Done /\ result.captain # None /\ result.super_sub # None) =>
        result.captain.id # result.super_sub.id

-----------------------------------------------------------------------------
(* C22 *)

\* The kickoffs, in minutes since 2026-02-01 00:00 UTC, of the fixtures with
\* this season and round whose team names are these up to case.
C22_Kickoffs(season, round_num, home, away) ==
    { SIX_NATIONS_2026[i].kickoff : i \in
        { j \in 1..Len(SIX_NATIONS_2026) :
            /\ SIX_NATIONS_2026[j].key[1] = season
            /\ SIX_NATIONS_2026[j].key[2] = round_num
            /\ Lower(SIX_NATIONS_2026[j].key[3]) = Lower(home)
            /\ Lower(SIX_NATIONS_2026[j].key[4]) = Lower(away) } }

C22_Played(a, now) ==
    \E kickoff \in C22_Kickoffs(a[1], a[2], a[3], a[4]) : now > kickoff + 120

C22_Asked == pc = "fixtures_returned" /\ fx_call.op = "is_match_played"

C22_Answer == C22_Asked => (fx_return <=> C22_Played(fx_call.args, utcnow))

C22_StaysPlayed ==
    utcnow' # utcnow =>
        \A season \in SeasonValues, round_num \in RoundValues,
           home \in TeamValues, away \in TeamValues :
            is_match_played(season, round_num, home, away, utcnow)
                => is_match_played(season, round_num, home, away, utcnow')

\* C22: is_match_played is True exactly when the fixture, team names
\* compared without regard to case, is in the schedule and now is strictly
\* later than its kickoff plus 2 hours (so False for a fixture not in the
\* schedule, at every time); and once True for a fixture it stays True as
\* time advances.
C22_IsMatchPlayed == [] C22_Answer /\ [][C22_StaysPlayed]_vars

\* "france" v "IRELAND" was asked one minute after kickoff + 2h, and is
\* played.
C22_Witness ==
    /\ C22_Asked
    /\ fx_call.args = <<2026, 1, "france", "IRELAND">>
    /\ utcnow = At(2, 5, 22, 11)
    /\ fx_return

-----------------------------------------------------------------------------
(* C23 *)

\* The rounds that have an unplayed match now.
C23_Open(season, now) ==
    {rnd \in 1..5 : get_upcoming_matches(season, rnd, now) # <<>>}

C23_Earliest(season, now) ==
    IF C23_Open(season, now) = {} THEN 5
    ELSE CHOOSE rnd \in C23_Open(season, now) :
            \A other \in C23_Open(season, now) : rnd <= other

C23_Answer ==
    (pc = "fixtures_returned" /\ fx_call.op = "get_current_round") =>
        fx_return = C23_Earliest(fx_call.args[1], utcnow)

C23_NeverDecreases ==
    utcnow' # utcnow => \A season \in SeasonValues :
        get_current_round(season, utcnow) <= get_current_round(season, utcnow')

\* C23: at every instant get_current_round returns the earliest round in
\* 1..5 for which get_upcoming_matches is non-empty at that instant, or 5
\* when every match of the season is played; and its value never decreases
\* as time advances.
C23_CurrentRound == [] C23_Answer /\ [][C23_NeverDecreases]_vars

(* C24 *)

\* The entries of _jobs that are no longer in progress.
C24_Finished == {i \in DOMAIN _jobs : _jobs[i].status # "in_progress"}

\* The job created last among them.
C24_CreatedLast ==
    IF C24_Finished = {} THEN None
    ELSE _jobs[CHOOSE i \in C24_Finished : \A k \in C24_Finished : k <= i]

C24_Active ==
    /\ {get_active_jobs.active[k] : k \in DOMAIN get_active_jobs.active}
          = {_jobs[i] : i \in DOMAIN _jobs \ C24_Finished}
    /\ C24_Finished = {} => get_active_jobs.latest_finished = None

\* Job i has just finished: the answer names it, or the job created last.
C24_MostRecent ==
    \A i \in DOMAIN _jobs :
        (_jobs[i].status = "in_progress" /\ _jobs'[i].status # "in_progress")
            => get_active_jobs'.latest_finished
                  \in {_jobs'[i], C24_CreatedLast'}

\* C24: after any sequence of job creations and completions get_active_jobs
\* has in "active" exactly the jobs in progress, and in "latest_finished"
\* the most recent job no longer in progress, the one created or finished
\* last among them, or None when there is none.
C24_ActiveJobs == [] C24_Active /\ [][C24_MostRecent]_vars

(* C25 *)

\* A task that was told to cancel and has ended left its job cancelled.
C25_Cancelled ==
    \A job_id \in DOMAIN _tasks :
        (_tasks[job_id].cancelling /\ _tasks[job_id].at = "done")
            => JobOf(job_id).status = "cancelled"

\* The answers "not_found" and "already_finished" of a call just made.
C25_Answers ==
    (pc = "jobs" /\ pc' = "jobs_returned"
        /\ job_return'.op = "kill_scrape_job") =>
        /\ job_return'.status = "not_found"
              <=> job_return'.job_id \notin JobIds
        /\ job_return'.status = "already_finished"
              <=> (job_return'.job_id \in JobIds
                     /\ _tasks[job_return'.job_id].at = "done")
        /\ job_return'.status # "cancelling" => _tasks' = _tasks
        /\ _jobs' = _jobs

\* C25: when kill_scrape_job answers "cancelling" for a job, the job's
\* status becomes "cancelled" and the job does not end as completed, failed
\* or session_expired; for an unknown id it answers "not_found", and for a
\* job whose task has finished "already_finished", the status unchanged.
C25_KillCancels == [] C25_Cancelled /\ [][C25_Answers]_vars

(* C28 *)

C28_Stable ==
    \A i \in DOMAIN _jobs :
        _jobs[i].status # "in_progress" => _jobs'[i] = _jobs[i]

\* C28: once the status of a job has left "in_progress" no later step of
\* its task and no endpoint call changes it again, a kill_scrape_job that
\* arrives while the task awaits its scrape-run record write included.
C28_FinalStatusStable == [][C28_Stable]_vars

(* C29 *)

C29_Leaves ==
    \A job_id \in Uuids :
        (job_id \in JobIds)
            ~> (job_id \in JobIds /\ JobOf(job_id).status # "in_progress")

\* No entry of _jobs is removed, and get_scrape_status finds every job.
C29_Kept ==
    /\ JobIds \subseteq JobIds'
    /\ (pc = "jobs" /\ pc' = "jobs_returned"
          /\ job_return'.op = "get_scrape_status"
          /\ job_return'.job_id \in JobIds)
         => job_return'.status = JobOf(job_return'.job_id).status

\* C29: every job created by a scrape endpoint eventually leaves
\* "in_progress", whether each step of its task succeeds, raises, or the
\* task is cancelled at an await, provided the task keeps being scheduled
\* and every awaited call returns or raises; and the job's entry is never
\* removed, so get_scrape_status never answers "not_found" for it.
C29_EveryJobEnds == C29_Leaves /\ [][C29_Kept]_vars

\* A job was killed at an await and is cancelled, its task ended.
C29_Witness ==
    \E job_id \in DOMAIN _tasks :
        /\ _tasks[job_id].cancelling
        /\ _tasks[job_id].at = "done"
        /\ JobOf(job_id).status = "cancelled"

(* C26 *)

C26_Missing(key, market) ==
    key \in DOMAIN per_match_missing /\ market \in per_match_missing[key]

\* C26: when _run_scraper is started by the "missing markets" endpoint with
\* a per_match_missing map, a (match, market) pair is scraped and saved
\* only if the market is in per_match_missing for the match, and the stored
\* odds of every market that was not missing for a match are unchanged.
C26_OnlyMissingScraped ==
    (pc = "missing_completed" /\ per_match_missing # None) =>
        /\ \A pair \in scraped : C26_Missing(pair[1], pair[2])
        /\ \A key \in MatchKeys, market \in MARKET_URL_MAP :
              ~C26_Missing(key, market) =>
                  match_odds[key][market] # Line("scraped")

(* C30 *)

C30_SameKey(i, k) ==
    /\ predictions[i].player_id = predictions[k].player_id
    /\ predictions[i].season = predictions[k].season
    /\ predictions[i].round = predictions[k].round

\* The row generated last for a player in season 2025 and the round.
C30_Latest(player_id, round) ==
    LET rows == {i \in DOMAIN predictions :
                    /\ predictions[i].player_id = player_id
                    /\ predictions[i].season = 2025
                    /\ predictions[i].round = round}
    IN  predictions[CHOOSE i \in rows : \A k \in rows : k <= i]

\* C30: after any sequence of generate_predictions calls there is at most
\* one Prediction row per (player, season, round), so the optimise endpoint,
\* which takes the first matching prediction of each player, optimises over
\* the predicted points generated last.
C30_OneRowPerPlayerRound ==
    /\ \A i, k \in DOMAIN predictions : C30_SameKey(i, k) => i = k
    /\ pc = "optimise_team" =>
          \A player_id \in DOMAIN optimiser_players.predicted_points :
              optimiser_players.predicted_points[player_id]
                 = C30_Latest(player_id, optimiser_players.round)
                      .predicted_points

====
